---------------------------- MODULE Spec2Model ----------------------------
(***************************************************************************)
(* A model of the Python sandbox SDK (src/python_sdk/sandbox_sdk.py):      *)
(* the RateLimiter, the MetricsCollector, the transport helper             *)
(* _make_request, the SandboxSDK facade with its sandbox/context caches,   *)
(* execute_batch, and the periodic metrics timer with disconnect().        *)
(*                                                                         *)
(* Python's None is modelled as the empty sequence <<>> and a present      *)
(* value v as <<v>> wherever a field is Optional.                          *)
(***************************************************************************)
EXTENDS Integers, Sequences, FiniteSets, TLC

VARIABLES
    now,                \* time.time() * 1000, counted in 1/UnitsPerMs ms
    request_timestamps, \* RateLimiter.request_timestamps
    concurrent_jobs,    \* RateLimiter.concurrent_jobs
    passed,             \* history: the times at which a facade call passed
                        \* _check_rate_limit()
    metrics_collector,  \* MetricsCollector: [metrics, response_times]
    active_sandboxes,   \* SandboxSDK.active_sandboxes: id -> sandbox dict
    active_contexts,    \* SandboxSDK.active_contexts: id -> context dict
    batch,              \* the frame of a running execute_batch call
    last,               \* the outcome of the facade call that completed last
    enable_metrics,     \* config["enable_metrics"]
    metrics_interval,   \* SandboxSDK.metrics_interval: None or a Timer
    timers,             \* the threading.Timer objects created so far
    callback_pc,        \* position of the timer thread inside collect_metrics
    disconnect_returned,\* disconnect() has been called and has returned
    scope               \* what the caller and the server of this behaviour
                        \* use: ids, options, and the budget of network calls

vars == <<now, request_timestamps, metrics_collector, active_sandboxes,
          active_contexts, batch, last, enable_metrics, metrics_interval,
          timers, callback_pc, disconnect_returned, scope, concurrent_jobs,
          passed>>

facade_vars == <<now, request_timestamps, metrics_collector, active_sandboxes,
                 active_contexts, batch, last>>

timer_vars == <<enable_metrics, metrics_interval, timers, callback_pc,
                disconnect_returned>>

----------------------------------------------------------------------------
(* Bounds of the model *)

\* Capacity the RateLimiter is constructed with. SandboxSDK.__init__ passes
\* 60; the model constructs the limiter with a small capacity so that a full
\* window and its expiry are reached within the bounds.
max_requests_per_minute == 3

\* The clock advances in steps of WINDOW_MS \div TicksPerWindow.
TicksPerWindow == 3

\* The clock stops after MaxTicks steps.
MaxTicks == 4

\* Resolution of the clock: time.time() * 1000 is a float, the model counts
\* it in fractions 1/UnitsPerMs of a millisecond.
UnitsPerMs == 2

\* Cap on the number of network calls of one behaviour.
MaxRequests == 3

\* Longest job list handed to execute_batch.
MaxJobs == 3

\* Cap on the number of Timer objects created in one behaviour.
MaxTimers == 3

\* Cap on the number of MetricsCollector.record_request calls made on top of
\* the collector a behaviour of the collector starts with.
MaxRecords == 3

\* Cap on the number of MetricsCollector.record_execution calls.
MaxExecutions == 2

\* Latest callback invocation of a call that may raise an exception.
MaxRaiseAt == 2

\* Cap on RateLimiter.concurrent_jobs.
MaxConcurrentJobs == 3

\* Largest number of keys of a raw result entry.
MaxKeys == 3

\* Largest number of entries of the "results" list of a response.
MaxResults == 3

----------------------------------------------------------------------------
(* Program constants *)

\* the trailing window of the rate limiter, in milliseconds
WINDOW_MS == 60000

\* capacity of MetricsCollector.response_times
MAX_RESPONSE_TIMES == 1000

\* config["timeout"] default, in milliseconds
DEFAULT_TIMEOUT == 60000

None == <<>>
Some(v) == <<v>>

TickMs == WINDOW_MS \div TicksPerWindow

\* a duration of ms milliseconds in clock units
Ms(ms) == ms * UnitsPerMs

\* Python's int() on a float number of milliseconds given in clock units:
\* truncation toward zero
int(u) == IF u >= 0 THEN u \div UnitsPerMs ELSE -((-u) \div UnitsPerMs)

SandboxIds == {"s1", "s2"}
ContextIds == {"c1", "c2"}
Statuses == {"ready", "running"}
TemplateIds == {"t1"}

Max(a, b) == IF a >= b THEN a ELSE b

\* sum(s[lo..hi]), halving the range so that a full buffer of samples is
\* summed within a shallow recursion
RECURSIVE SumRange(_, _, _)
SumRange(s, lo, hi) ==
    IF lo > hi THEN 0
    ELSE IF lo = hi THEN s[lo]
    ELSE LET mid == (lo + hi) \div 2
         IN SumRange(s, lo, mid) + SumRange(s, mid + 1, hi)

\* Python's sum() of a list
SumSeq(s) == SumRange(s, 1, Len(s))

RECURSIVE Gcd(_, _)
Gcd(a, b) == IF b = 0 THEN a ELSE Gcd(b, a % b)

\* an exact fraction in lowest terms, standing for a Python float quotient
Ratio(n, d) == LET g == Gcd(n, d) IN [num |-> n \div g, den |-> d \div g]

----------------------------------------------------------------------------
(* RateLimiter *)

\* can_make_request without the pruning of old timestamps
UnexpiredKeepsAll(timestamps, t) == timestamps

\* the list comprehension of can_make_request: keep ts > now - 60000
Unexpired(timestamps, t) ==
    SelectSeq(timestamps, LAMBDA ts : ts > t - Ms(WINDOW_MS))

\* can_make_request() admitting a request on a full window
can_make_request_inclusive(timestamps, t) ==
    Len(Unexpired(timestamps, t)) <= max_requests_per_minute

\* can_make_request(): its return value, computed on the pruned list
can_make_request(timestamps, t) ==
    Len(Unexpired(timestamps, t)) < max_requests_per_minute

\* record_request(): append the current time unconditionally
record_request(timestamps, t) == Append(timestamps, t)

\* get_retry_after(): max(int(60000 - (now - oldest)), 0) milliseconds; 0
\* when no timestamp is recorded
get_retry_after(timestamps, t) ==
    IF timestamps = <<>> THEN 0
    ELSE Max(int(Ms(WINDOW_MS) - (t - timestamps[1])), 0)

\* increment_concurrent_jobs(): the new value of the counter, also returned
increment_concurrent_jobs(jobs) == jobs + 1

\* decrement_concurrent_jobs() without the floor at 0
decrement_concurrent_jobs_unclamped(jobs) == jobs - 1

\* decrement_concurrent_jobs(): max(concurrent_jobs - 1, 0), also returned
decrement_concurrent_jobs(jobs) == Max(jobs - 1, 0)

\* _check_rate_limit() recording the request before the check
CheckRateLimitRecordsRejected(timestamps, t) ==
    LET kept == Unexpired(timestamps, t) IN
    [raised |-> ~ can_make_request(timestamps, t),
     retry_after |-> get_retry_after(kept, t),
     timestamps |-> record_request(kept, t)]

\* _check_rate_limit() letting a request pass without recording it
CheckRateLimitSkipsRecord(timestamps, t) ==
    LET kept == Unexpired(timestamps, t) IN
    IF ~ can_make_request(timestamps, t)
    THEN [raised |-> TRUE, retry_after |-> get_retry_after(kept, t),
          timestamps |-> kept]
    ELSE [raised |-> FALSE, retry_after |-> 0, timestamps |-> kept]

\* _check_rate_limit(): prune, then either raise RateLimitError(retry_after)
\* or record the request. Returns the limiter state and the error, if any.
CheckRateLimit(timestamps, t) ==
    LET kept == Unexpired(timestamps, t) IN
    IF ~ can_make_request(timestamps, t)
    THEN [raised |-> TRUE, retry_after |-> get_retry_after(kept, t),
          timestamps |-> kept]
    ELSE [raised |-> FALSE, retry_after |-> 0,
          timestamps |-> record_request(kept, t)]

----------------------------------------------------------------------------
(* MetricsCollector *)

MetricsData ==
    [total_requests |-> 0, successful_requests |-> 0, failed_requests |-> 0,
     average_response_time |-> Ratio(0, 1), total_execution_time |-> 0,
     active_sandboxes |-> 0]

NewMetricsCollector == [metrics |-> MetricsData, response_times |-> <<>>]

\* _update_average_response_time(): no recomputation on an empty buffer
UpdateAverageResponseTime(mc) ==
    IF mc.response_times = <<>> THEN mc
    ELSE [mc EXCEPT !.metrics.average_response_time =
              Ratio(SumSeq(mc.response_times), Len(mc.response_times))]

\* record_request leaving failed requests out of total_requests
MetricsRecordRequestSkipsFailed(mc, success, response_time) ==
    LET counted ==
            [mc.metrics EXCEPT
                !.total_requests = IF success THEN @ + 1 ELSE @,
                !.successful_requests = IF success THEN @ + 1 ELSE @,
                !.failed_requests = IF success THEN @ ELSE @ + 1]
        appended == Append(mc.response_times, response_time)
        bounded == IF Len(appended) > MAX_RESPONSE_TIMES
                   THEN Tail(appended) ELSE appended
    IN UpdateAverageResponseTime(
           [metrics |-> counted, response_times |-> bounded])

\* record_request evicting with pop() instead of pop(0)
MetricsRecordRequestEvictsNewest(mc, success, response_time) ==
    LET counted ==
            [mc.metrics EXCEPT
                !.total_requests = @ + 1,
                !.successful_requests = IF success THEN @ + 1 ELSE @,
                !.failed_requests = IF success THEN @ ELSE @ + 1]
        appended == Append(mc.response_times, response_time)
        bounded == IF Len(appended) > MAX_RESPONSE_TIMES
                   THEN SubSeq(appended, 1, Len(appended) - 1) ELSE appended
    IN UpdateAverageResponseTime(
           [metrics |-> counted, response_times |-> bounded])

\* MetricsCollector.record_request(success, response_time)
MetricsRecordRequest(mc, success, response_time) ==
    LET counted ==
            [mc.metrics EXCEPT
                !.total_requests = @ + 1,
                !.successful_requests = IF success THEN @ + 1 ELSE @,
                !.failed_requests = IF success THEN @ ELSE @ + 1]
        appended == Append(mc.response_times, response_time)
        bounded == IF Len(appended) > MAX_RESPONSE_TIMES
                   THEN Tail(appended) ELSE appended
    IN UpdateAverageResponseTime(
           [metrics |-> counted, response_times |-> bounded])

\* MetricsCollector.record_execution(duration)
MetricsRecordExecution(mc, duration) ==
    [mc EXCEPT !.metrics.total_execution_time = @ + duration]

\* MetricsCollector.update_active_sandboxes(count)
MetricsUpdateActiveSandboxes(mc, count) ==
    [mc EXCEPT !.metrics.active_sandboxes = count]

\* reset() clearing the counters but not the sample buffer
MetricsResetKeepsBuffer(mc) == [mc EXCEPT !.metrics = MetricsData]

\* MetricsCollector.reset(): a new MetricsData and an empty buffer
MetricsReset(mc) == NewMetricsCollector

----------------------------------------------------------------------------
(* The transport helper _make_request *)

\* What the network can answer to one call.
\*   ok:      a 2xx response whose body decodes to `data`
\*   timeout: requests.exceptions.Timeout
\*   error:   any other RequestException; `body` is what e.response holds:
\*            "none" (no response), "not_json", or "json" with the decoded
\*            object in `json` (a message key may be present)
ServerMessage == "server message"
GenericMessage == "str(e)"
StatusMessage == "Request failed with status"

ErrorBodies ==
    { [kind |-> "none", json |-> <<>>],
      [kind |-> "not_json", json |-> <<>>],
      [kind |-> "json", json |-> Some(ServerMessage)],
      [kind |-> "json", json |-> None] }

\* the timeout handed to requests.request: timeout_ms or config["timeout"]
AppliedTimeout(timeout_ms) ==
    IF timeout_ms = None \/ timeout_ms = Some(0)
    THEN DEFAULT_TIMEOUT ELSE timeout_ms[1]

\* the value formatted into TimeoutError's message: f"...{timeout_ms}ms"
TimeoutInMessage(timeout_ms) == timeout_ms

\* The statement inside `try:` of the RequestException handler always ends
\* in an exception: e.response.json() fails, or SandboxError is raised with
\* the message of the body.
RaisedInTry(body) ==
    CASE body.kind = "none" -> [type |-> "AttributeError", message |-> ""]
      [] body.kind = "not_json" -> [type |-> "ValueError", message |-> ""]
      [] OTHER -> [type |-> "SandboxError",
                   message |-> IF body.json # None THEN body.json[1]
                               ELSE StatusMessage]

\* `except:` without an exception class catches every exception
BareExceptCatches(exc) == TRUE

\* the SandboxError that leaves the RequestException handler
RequestErrorMessage(body) ==
    LET inner == RaisedInTry(body) IN
    IF BareExceptCatches(inner) THEN GenericMessage ELSE inner.message

NoError == [type |-> "none", reason |-> "", message |-> "",
            retry_after |-> None, timeout |-> None]

\* _make_request whose Timeout handler raises without recording the request
MakeRequestTimeoutUnrecorded(mc, method, endpoint, timeout_ms, net) ==
    LET call == [method |-> method, endpoint |-> endpoint,
                 timeout |-> AppliedTimeout(timeout_ms),
                 answer |-> [kind |-> net.kind, body |-> net.body,
                             data |-> net.data]] IN
    CASE net.kind = "ok" ->
            [collector |-> MetricsRecordRequest(mc, TRUE, net.elapsed),
             call |-> call, data |-> net.data, error |-> NoError]
      [] net.kind = "timeout" ->
            [collector |-> mc,
             call |-> call, data |-> <<>>,
             error |-> [type |-> "TimeoutError", reason |-> "timeout",
                        message |-> "Request timeout",
                        retry_after |-> None,
                        timeout |-> Some(TimeoutInMessage(timeout_ms))]]
      [] OTHER ->
            [collector |-> MetricsRecordRequest(mc, FALSE, net.elapsed),
             call |-> call, data |-> <<>>,
             error |-> [type |-> "SandboxError", reason |-> "transport",
                        message |-> RequestErrorMessage(net.body),
                        retry_after |-> None, timeout |-> None]]

\* _make_request(method, endpoint, payload, timeout_ms) against the network
\* answer `net`: the new collector, the call issued (with the timeout handed
\* to requests.request and the answer it got), the data returned or the
\* error raised.
MakeRequest(mc, method, endpoint, timeout_ms, net) ==
    LET call == [method |-> method, endpoint |-> endpoint,
                 timeout |-> AppliedTimeout(timeout_ms),
                 answer |-> [kind |-> net.kind, body |-> net.body,
                             data |-> net.data]] IN
    CASE net.kind = "ok" ->
            [collector |-> MetricsRecordRequest(mc, TRUE, net.elapsed),
             call |-> call, data |-> net.data, error |-> NoError]
      [] net.kind = "timeout" ->
            [collector |-> MetricsRecordRequest(mc, FALSE, net.elapsed),
             call |-> call, data |-> <<>>,
             error |-> [type |-> "TimeoutError", reason |-> "timeout",
                        message |-> "Request timeout",
                        retry_after |-> None,
                        timeout |-> Some(TimeoutInMessage(timeout_ms))]]
      [] OTHER ->
            [collector |-> MetricsRecordRequest(mc, FALSE, net.elapsed),
             call |-> call, data |-> <<>>,
             error |-> [type |-> "SandboxError", reason |-> "transport",
                        message |-> RequestErrorMessage(net.body),
                        retry_after |-> None, timeout |-> None]]


----------------------------------------------------------------------------
(* Network answers and the result of a facade call *)

Elapsed == {10}

\* the answers the network can give to a call whose 2xx bodies are `bodies`
NetAnswers(bodies) ==
    { [kind |-> "ok", elapsed |-> e, data |-> d, body |-> [kind |-> "none", json |-> <<>>]]
        : e \in Elapsed, d \in bodies }
    \cup { [kind |-> "timeout", elapsed |-> e, data |-> <<>>, body |-> [kind |-> "none", json |-> <<>>]]
        : e \in Elapsed }
    \cup { [kind |-> "error", elapsed |-> e, data |-> <<>>, body |-> b]
        : e \in Elapsed, b \in ErrorBodies }

NotFound ==
    [type |-> "SandboxError", reason |-> "not_found",
     message |-> "Sandbox not found", retry_after |-> None, timeout |-> None]

RateLimitError(retry_after) ==
    [type |-> "RateLimitError", reason |-> "rate_limit",
     message |-> "Rate limit exceeded", retry_after |-> Some(retry_after),
     timeout |-> None]

CallbackError ==
    [type |-> "Exception", reason |-> "callback",
     message |-> "callback failed", retry_after |-> None, timeout |-> None]

AllHandlers == {"on_result", "on_stdout", "on_stderr", "on_error"}

\* options of run_code / run_terminal: the timeout override, the callbacks
\* supplied, and which callback invocation (0: none) raises an exception
NoOpts == [timeout_ms |-> None, handlers |-> {}, raise_at |-> 0]

\* A facade call that changes nothing, issues no call and returns None:
\* the starting point of every operation below. `opts` is the options
\* dict the call was given and `events` the callback invocations it made.
Returned ==
    [timestamps |-> request_timestamps, collector |-> metrics_collector,
     sandboxes |-> active_sandboxes, contexts |-> active_contexts,
     error |-> NoError, calls |-> <<>>, value |-> None, events |-> <<>>,
     opts |-> NoOpts, passed |-> FALSE]

\* a call that is issued a second time when it fails
RequestedWithRetry(base, r) ==
    [base EXCEPT !.collector = r.collector,
                 !.calls = IF r.error.type = "none" THEN Append(@, r.call)
                           ELSE Append(Append(@, r.call), r.call),
                 !.error = r.error]

\* the part shared by every call that goes to the network once
Requested(base, r) ==
    [base EXCEPT !.collector = r.collector, !.calls = Append(@, r.call),
                 !.error = r.error]

\* dict without a key
Without(f, k) == [x \in DOMAIN f \ {k} |-> f[x]]

\* dict with d[k] = v
With(f, k, v) == [x \in DOMAIN f \cup {k} |-> IF x = k THEN v ELSE f[x]]

----------------------------------------------------------------------------
(* Sandbox management *)

\* create_sandbox returning the response without caching the sandbox
create_sandbox_uncached(net) ==
    LET rl == CheckRateLimit(request_timestamps, now)
        limited == [Returned EXCEPT !.timestamps = rl.timestamps,
                                    !.passed = ~ rl.raised]
    IN
    IF rl.raised
    THEN [limited EXCEPT !.error = RateLimitError(rl.retry_after)]
    ELSE
        LET r == MakeRequest(metrics_collector, "POST",
                             <<"sandboxes", "create">>,
                             Some(DEFAULT_TIMEOUT), net)
            sent == Requested(limited, r)
        IN
        IF r.error.type # "none" THEN sent
        ELSE [sent EXCEPT !.value = r.data]

\* create_sandbox(options)
create_sandbox(net) ==
    LET rl == CheckRateLimit(request_timestamps, now)
        limited == [Returned EXCEPT !.timestamps = rl.timestamps,
                                    !.passed = ~ rl.raised]
    IN
    IF rl.raised
    THEN [limited EXCEPT !.error = RateLimitError(rl.retry_after)]
    ELSE
        LET r == MakeRequest(metrics_collector, "POST",
                             <<"sandboxes", "create">>,
                             Some(DEFAULT_TIMEOUT), net)
            sent == Requested(limited, r)
        IN
        IF r.error.type # "none" THEN sent
        ELSE IF r.data.sandbox = None THEN [sent EXCEPT !.value = r.data]
        ELSE [sent EXCEPT
                 !.sandboxes = With(active_sandboxes, r.data.sandbox[1].id,
                                    r.data.sandbox[1]),
                 !.value = r.data]

\* delete_sandbox without the loop over active_contexts
delete_sandbox_keeps_contexts(sandbox_id, net) ==
    LET removed ==
            [Returned EXCEPT
                !.sandboxes = IF sandbox_id \in DOMAIN active_sandboxes
                              THEN Without(active_sandboxes, sandbox_id)
                              ELSE active_sandboxes]
    IN Requested(removed,
                 MakeRequest(metrics_collector, "DELETE",
                             <<"sandboxes", sandbox_id>>, None, net))

\* delete_sandbox gated on the cache like the read operations
delete_sandbox_gated(sandbox_id, net) ==
    IF sandbox_id \notin DOMAIN active_sandboxes
    THEN [Returned EXCEPT !.error = NotFound]
    ELSE
        LET kept == { c \in DOMAIN active_contexts :
                        active_contexts[c].sandbox_id # Some(sandbox_id) }
            cleaned ==
                [Returned EXCEPT
                    !.contexts = [c \in kept |-> active_contexts[c]],
                    !.sandboxes = Without(active_sandboxes, sandbox_id)]
        IN Requested(cleaned,
                     MakeRequest(metrics_collector, "DELETE",
                                 <<"sandboxes", sandbox_id>>, None, net))

\* delete_sandbox(sandbox_id)
delete_sandbox(sandbox_id, net) ==
    LET kept == { c \in DOMAIN active_contexts :
                    active_contexts[c].sandbox_id # Some(sandbox_id) }
        cleaned ==
            [Returned EXCEPT
                !.contexts = [c \in kept |-> active_contexts[c]],
                !.sandboxes = IF sandbox_id \in DOMAIN active_sandboxes
                              THEN Without(active_sandboxes, sandbox_id)
                              ELSE active_sandboxes]
        r == MakeRequest(metrics_collector, "DELETE",
                         <<"sandboxes", sandbox_id>>, None, net)
    IN Requested(cleaned, r)

\* get_sandbox_status refusing to take a sandbox out of "running"
get_sandbox_status_monotone(sandbox_id, net) ==
    IF sandbox_id \notin DOMAIN active_sandboxes
    THEN [Returned EXCEPT !.error = NotFound]
    ELSE
        LET r == MakeRequest(metrics_collector, "GET",
                             <<"sandboxes", sandbox_id, "status">>, None, net)
            sent == Requested(Returned, r)
        IN
        IF r.error.type # "none" THEN sent
        ELSE IF active_sandboxes[sandbox_id].status = "running"
        THEN [sent EXCEPT !.value = Some(r.data.status)]
        ELSE [sent EXCEPT
                 !.sandboxes = [active_sandboxes EXCEPT
                                   ![sandbox_id].status = r.data.status],
                 !.value = Some(r.data.status)]

\* get_sandbox_status(sandbox_id)
get_sandbox_status(sandbox_id, net) ==
    IF sandbox_id \notin DOMAIN active_sandboxes
    THEN [Returned EXCEPT !.error = NotFound]
    ELSE
        LET r == MakeRequest(metrics_collector, "GET",
                             <<"sandboxes", sandbox_id, "status">>, None, net)
            sent == Requested(Returned, r)
        IN
        IF r.error.type # "none" THEN sent
        ELSE [sent EXCEPT
                 !.sandboxes = [active_sandboxes EXCEPT
                                   ![sandbox_id].status = r.data.status],
                 !.value = Some(r.data.status)]

\* list_sandboxes()
list_sandboxes ==
    [Returned EXCEPT
        !.value = { active_sandboxes[s] : s \in DOMAIN active_sandboxes }]

----------------------------------------------------------------------------
(* Template management: stateless passthroughs *)

\* get_templates(page, page_size)
get_templates(net) ==
    LET r == MakeRequest(metrics_collector, "GET", <<"templates">>, None, net)
    IN [Requested(Returned, r) EXCEPT !.value = r.data]

\* get_template(template_id)
get_template(template_id, net) ==
    LET r == MakeRequest(metrics_collector, "GET",
                         <<"templates", template_id>>, None, net)
    IN [Requested(Returned, r) EXCEPT !.value = r.data]

\* create_template(template)
create_template(net) ==
    LET r == MakeRequest(metrics_collector, "POST", <<"templates">>, None, net)
    IN [Requested(Returned, r) EXCEPT !.value = r.data]


----------------------------------------------------------------------------
(* Data classes: Result and Execution *)

\* A raw result entry is a JSON object: a sequence of <<key, value>> pairs
\* with distinct keys, in insertion order.

\* the format attributes of a Result, in the order formats() tests them
FormatKeys ==
    <<"text", "html", "markdown", "svg", "png", "jpeg", "pdf", "latex",
      "json", "javascript", "data", "chart">>

\* reserved_keys of Result.__init__
ReservedKeys ==
    {"text", "html", "markdown", "svg", "png", "jpeg", "pdf", "latex",
     "json", "javascript", "data", "chart", "type", "is_main_result"}

\* dict.get(key, default)
Get(raw_data, key, default) ==
    IF \E i \in DOMAIN raw_data : raw_data[i][1] = key
    THEN raw_data[CHOOSE i \in DOMAIN raw_data : raw_data[i][1] = key][2]
    ELSE default

\* dict.get(key) of a format key: None when the key is missing
GetFormat(raw_data, key) ==
    IF \E i \in DOMAIN raw_data : raw_data[i][1] = key
    THEN Some(raw_data[CHOOSE i \in DOMAIN raw_data : raw_data[i][1] = key][2])
    ELSE None

\* Python truthiness of an Optional[str]
Truthy(v) == v # None /\ v[1] # ""

\* Result.__init__ collecting every key but "type" and "is_main_result"
\* into extra
ResultReservesFlagsOnly(raw_data, is_main_result) ==
    [is_main_result |-> is_main_result,
     formats |-> [k \in {FormatKeys[i] : i \in DOMAIN FormatKeys} |->
                     GetFormat(raw_data, k)],
     extra |-> SelectSeq(raw_data,
                         LAMBDA kv : kv[1] \notin {"type", "is_main_result"})]

\* Result.__init__(raw_data, is_main_result): the format attributes and the
\* extra dict (insertion order of raw_data)
Result(raw_data, is_main_result) ==
    [is_main_result |-> is_main_result,
     formats |-> [k \in {FormatKeys[i] : i \in DOMAIN FormatKeys} |->
                     GetFormat(raw_data, k)],
     extra |-> SelectSeq(raw_data, LAMBDA kv : kv[1] \notin ReservedKeys)]

\* Result.formats() listing the keys of extra first
formats_extra_first(result) ==
    [i \in DOMAIN result.extra |-> result.extra[i][1]]
    \o SelectSeq(FormatKeys, LAMBDA k : Truthy(result.formats[k]))

\* Result.formats()
formats(result) ==
    SelectSeq(FormatKeys, LAMBDA k : Truthy(result.formats[k]))
    \o [i \in DOMAIN result.extra |-> result.extra[i][1]]

\* Execution.text returning the text of the first main result
text_of_first_main(results) ==
    LET main == SelectSeq(results, LAMBDA r : r.is_main_result)
    IN IF main = << >> THEN None
       ELSE IF Truthy(main[1].formats["text"]) THEN main[1].formats["text"]
       ELSE None

\* Execution.text: the loop of lines 183-186
text(results) ==
    LET hits == SelectSeq(results,
                          LAMBDA r : r.is_main_result
                                     /\ Truthy(r.formats["text"]))
    IN IF hits = << >> THEN None ELSE hits[1].formats["text"]

----------------------------------------------------------------------------
(* Code execution *)

\* decoded 2xx bodies of POST /execute used by the model
ExecBodies ==
    { [results |-> << << <<"text", "4">>, <<"is_main_result", TRUE>> >> >>,
       logs |-> [stdout |-> << "out" >>, stderr |-> << >>],
       error |-> None],
      [results |-> << >>,
       logs |-> [stdout |-> << >>, stderr |-> << "err" >>],
       error |-> Some([name |-> "ZeroDivisionError",
                       value |-> "division by zero",
                       traceback |-> "Traceback"])] }

RunOpts ==
    { NoOpts,
      [NoOpts EXCEPT !.timeout_ms = Some(5000)],
      [NoOpts EXCEPT !.timeout_ms = Some(0)],
      [NoOpts EXCEPT !.handlers = AllHandlers],
      [NoOpts EXCEPT !.handlers = AllHandlers, !.raise_at = 1] }

\* the Execution built from a decoded body (lines 525-545)
DecodeExecution(data) ==
    [results |-> [i \in DOMAIN data.results |->
                     Result(data.results[i],
                            Get(data.results[i], "is_main_result", FALSE))],
     logs |-> [stdout |-> data.logs.stdout, stderr |-> data.logs.stderr],
     error |-> data.error]

\* the callback invocations of run_code with on_error dispatched first
CallbackEventsErrorFirst(handlers, execution) ==
    (IF "on_error" \in handlers /\ execution.error # None
     THEN << [handler |-> "on_error", arg |-> execution.error[1],
              error |-> TRUE] >>
     ELSE << >>)
    \o (IF "on_result" \in handlers
        THEN [i \in 1..Len(execution.results) |->
                 [handler |-> "on_result", arg |-> execution.results[i],
                  error |-> FALSE]]
        ELSE << >>)
    \o (IF "on_stdout" \in handlers
        THEN [i \in 1..Len(execution.logs.stdout) |->
                 [handler |-> "on_stdout", arg |-> execution.logs.stdout[i],
                  error |-> FALSE]]
        ELSE << >>)
    \o (IF "on_stderr" \in handlers
        THEN [i \in 1..Len(execution.logs.stderr) |->
                 [handler |-> "on_stderr", arg |-> execution.logs.stderr[i],
                  error |-> TRUE]]
        ELSE << >>)

\* the callback invocations of run_code, in the order of lines 548-569
CallbackEvents(handlers, execution) ==
    (IF "on_result" \in handlers
     THEN [i \in 1..Len(execution.results) |->
              [handler |-> "on_result", arg |-> execution.results[i],
               error |-> FALSE]]
     ELSE << >>)
    \o (IF "on_stdout" \in handlers
        THEN [i \in 1..Len(execution.logs.stdout) |->
                 [handler |-> "on_stdout", arg |-> execution.logs.stdout[i],
                  error |-> FALSE]]
        ELSE << >>)
    \o (IF "on_stderr" \in handlers
        THEN [i \in 1..Len(execution.logs.stderr) |->
                 [handler |-> "on_stderr", arg |-> execution.logs.stderr[i],
                  error |-> TRUE]]
        ELSE << >>)
    \o (IF "on_error" \in handlers /\ execution.error # None
        THEN << [handler |-> "on_error", arg |-> execution.error[1],
                 error |-> TRUE] >>
        ELSE << >>)

\* callbacks are not guarded: the invocation that raises ends the call
Dispatch(base, events, raise_at) ==
    IF raise_at \in 1..Len(events)
    THEN [base EXCEPT !.events = SubSeq(events, 1, raise_at),
                      !.error = CallbackError]
    ELSE [base EXCEPT !.events = events]

\* run_code(sandbox_id, code, opts)
run_code(sandbox_id, opts, net) ==
    LET rl == CheckRateLimit(request_timestamps, now)
        limited == [Returned EXCEPT !.timestamps = rl.timestamps,
                                    !.passed = ~ rl.raised, !.opts = opts]
    IN
    IF rl.raised
    THEN [limited EXCEPT !.error = RateLimitError(rl.retry_after)]
    ELSE IF sandbox_id \notin DOMAIN active_sandboxes
    THEN [limited EXCEPT !.error = NotFound]
    ELSE
        LET r == MakeRequest(metrics_collector, "POST",
                             <<"sandboxes", sandbox_id, "execute">>,
                             opts.timeout_ms, net)
            sent == Requested(limited, r)
        IN
        IF r.error.type # "none" THEN sent
        ELSE
            LET execution == DecodeExecution(r.data) IN
            Dispatch([sent EXCEPT !.value = Some(execution)],
                     CallbackEvents(opts.handlers, execution),
                     opts.raise_at)

\* decoded 2xx bodies of POST /terminal
TerminalBodies == { [output |-> "total 0"] }

\* run_terminal without the call of _check_rate_limit
run_terminal_unlimited(sandbox_id, opts, net) ==
    IF sandbox_id \notin DOMAIN active_sandboxes
    THEN [Returned EXCEPT !.error = NotFound]
    ELSE
        LET r == MakeRequest(metrics_collector, "POST",
                             <<"sandboxes", sandbox_id, "terminal">>,
                             opts.timeout_ms, net)
            sent == Requested(Returned, r)
        IN
        IF r.error.type # "none" THEN sent
        ELSE [sent EXCEPT !.value = Some(r.data.output)]

\* run_terminal(sandbox_id, command, opts)
run_terminal(sandbox_id, opts, net) ==
    LET rl == CheckRateLimit(request_timestamps, now)
        limited == [Returned EXCEPT !.timestamps = rl.timestamps,
                                    !.passed = ~ rl.raised, !.opts = opts]
    IN
    IF rl.raised
    THEN [limited EXCEPT !.error = RateLimitError(rl.retry_after)]
    ELSE IF sandbox_id \notin DOMAIN active_sandboxes
    THEN [limited EXCEPT !.error = NotFound]
    ELSE
        LET r == MakeRequest(metrics_collector, "POST",
                             <<"sandboxes", sandbox_id, "terminal">>,
                             opts.timeout_ms, net)
            sent == Requested(limited, r)
        IN
        IF r.error.type # "none" THEN sent
        ELSE
            Dispatch([sent EXCEPT !.value = Some(r.data.output)],
                     IF "on_stdout" \in opts.handlers
                     THEN << [handler |-> "on_stdout", arg |-> r.data.output,
                              error |-> FALSE] >>
                     ELSE << >>,
                     opts.raise_at)

----------------------------------------------------------------------------
(* File management *)

\* a file operation without the check of the sandbox cache
FileRequestUnchecked(sandbox_id, method, endpoint, net) ==
    LET r == MakeRequest(metrics_collector, method, endpoint, None, net)
    IN [Requested(Returned, r) EXCEPT !.value = r.data]

\* the shape shared by read_file, write_file, delete_file and list_files:
\* the cache check, then one call without a timeout override
FileRequest(sandbox_id, method, endpoint, net) ==
    IF sandbox_id \notin DOMAIN active_sandboxes
    THEN [Returned EXCEPT !.error = NotFound]
    ELSE
        LET r == MakeRequest(metrics_collector, method, endpoint, None, net)
        IN [Requested(Returned, r) EXCEPT !.value = r.data]

\* read_file(sandbox_id, path)
read_file(sandbox_id, net) ==
    FileRequest(sandbox_id, "GET", <<"sandboxes", sandbox_id, "files">>, net)

\* write_file(sandbox_id, path, content, create_parents)
write_file(sandbox_id, net) ==
    FileRequest(sandbox_id, "POST", <<"sandboxes", sandbox_id, "files">>, net)

\* delete_file(sandbox_id, path)
delete_file(sandbox_id, net) ==
    FileRequest(sandbox_id, "DELETE", <<"sandboxes", sandbox_id, "files">>, net)

\* list_files(sandbox_id, dir_path)
list_files(sandbox_id, net) ==
    FileRequest(sandbox_id, "GET",
                <<"sandboxes", sandbox_id, "files", "list">>, net)

----------------------------------------------------------------------------
(* Context management *)

\* decoded 2xx bodies of POST /contexts: the server chooses id and sandbox_id
ContextBodies ==
    [id : scope.context_ids,
     sandbox_id : {None} \cup {Some(s) : s \in scope.sandbox_ids}]

\* create_code_context(sandbox_id, language, cwd, request_timeout_ms)
create_code_context(sandbox_id, request_timeout_ms, net) ==
    IF sandbox_id \notin DOMAIN active_sandboxes
    THEN [Returned EXCEPT !.error = NotFound]
    ELSE
        LET r == MakeRequest(metrics_collector, "POST",
                             <<"sandboxes", sandbox_id, "contexts">>,
                             request_timeout_ms, net)
            sent == Requested(Returned, r)
        IN
        IF r.error.type # "none" THEN sent
        ELSE [sent EXCEPT
                 !.contexts = With(active_contexts, r.data.id, r.data),
                 !.value = r.data]

\* delete_code_context removing the context once the DELETE has succeeded
delete_code_context_after_request(context_id, net) ==
    IF context_id \notin DOMAIN active_contexts
    THEN Returned
    ELSE
        LET sandbox_id == active_contexts[context_id].sandbox_id
            removed == [Returned EXCEPT
                           !.contexts = Without(active_contexts, context_id)]
        IN
        IF sandbox_id = None THEN removed
        ELSE
            LET r == MakeRequest(metrics_collector, "DELETE",
                                 <<"sandboxes", sandbox_id[1], "contexts",
                                   context_id>>, None, net)
            IN Requested(IF r.error.type = "none" THEN removed ELSE Returned,
                         r)

\* delete_code_context(context_id)
delete_code_context(context_id, net) ==
    IF context_id \notin DOMAIN active_contexts
    THEN Returned
    ELSE
        LET sandbox_id == active_contexts[context_id].sandbox_id
            removed == [Returned EXCEPT
                           !.contexts = Without(active_contexts, context_id)]
        IN
        IF sandbox_id = None THEN removed
        ELSE Requested(removed,
                 MakeRequest(metrics_collector, "DELETE",
                             <<"sandboxes", sandbox_id[1], "contexts",
                               context_id>>, None, net))

\* list_code_contexts(sandbox_id)
list_code_contexts(sandbox_id) ==
    [Returned EXCEPT
        !.value = { active_contexts[c] : c \in
                      { x \in DOMAIN active_contexts :
                          active_contexts[x].sandbox_id = Some(sandbox_id) } }]


----------------------------------------------------------------------------
(* The state after SandboxSDK.__init__ *)

EmptyDict == [x \in {} |-> x]

IdleBatch ==
    [pc |-> "idle", sandbox_id |-> "", jobs |-> << >>, opts |-> << >>,
     results |-> << >>]

NoCall ==
    [op |-> "none", arg |-> "", error |-> NoError, calls |-> << >>,
     value |-> None, events |-> << >>, opts |-> NoOpts, in_batch |-> FALSE]

\* a Timer object: `state` is the position of its thread (new: not started,
\* waiting: in finished.wait(interval), running: inside function(),
\* finished: run() has returned); `cancelled` is its finished event as set by
\* cancel()
NewTimer == [state |-> "new", cancelled |-> FALSE]

NoCallback == [pc |-> "idle", timer |-> 0, snapshot |-> << >>]

\* lines 336-343: empty caches, a fresh collector and limiter, and the first
\* timer created and started when enable_metrics is set
InitFacade ==
    /\ now = 0
    /\ request_timestamps = << >>
    /\ concurrent_jobs = 0
    /\ passed = << >>
    /\ metrics_collector = NewMetricsCollector
    /\ active_sandboxes = EmptyDict
    /\ active_contexts = EmptyDict
    /\ batch = IdleBatch
    /\ last = NoCall

\* _setup_metrics_collection()
SetupMetricsCollection(enabled) ==
    /\ enable_metrics = enabled
    /\ metrics_interval = IF enabled THEN Some(1) ELSE None
    /\ timers = IF enabled THEN << [NewTimer EXCEPT !.state = "waiting"] >>
                ELSE << >>
    /\ callback_pc = NoCallback
    /\ disconnect_returned = FALSE

\* the ids, options and budgets a behaviour draws its inputs from
Scope(sandbox_ids, context_ids, run_opts, budget, ticks, tick_ms) ==
    [sandbox_ids |-> sandbox_ids, context_ids |-> context_ids,
     run_opts |-> run_opts, budget |-> budget, ticks |-> ticks,
     tick_ms |-> tick_ms]

Init ==
    /\ InitFacade
    /\ SetupMetricsCollection(FALSE)
    /\ scope = Scope({"s1"}, {}, {NoOpts}, MaxRequests, MaxTicks, TickMs)

----------------------------------------------------------------------------
(* Actions: one per facade call *)

\* The caller's thread runs one facade call at a time; the call ends with the
\* state `r` computed by the operation.
Complete(name, arg, r) ==
    /\ batch.pc = "idle"
    /\ r.collector.metrics.total_requests <= scope.budget
    /\ request_timestamps' = r.timestamps
    /\ metrics_collector' = r.collector
    /\ active_sandboxes' = r.sandboxes
    /\ active_contexts' = r.contexts
    /\ last' = [op |-> name, arg |-> arg, error |-> r.error,
                calls |-> r.calls, value |-> r.value, events |-> r.events,
                opts |-> r.opts, in_batch |-> FALSE]
    /\ passed' = IF r.passed THEN Append(passed, now) ELSE passed
    /\ UNCHANGED <<now, batch, timer_vars, scope, concurrent_jobs>>

SandboxBodies ==
    { [sandbox |-> None] }
    \cup { [sandbox |-> Some([id |-> s, status |-> "ready"])] :
              s \in scope.sandbox_ids }

StatusBodies == { [status |-> st] : st \in Statuses }

OtherBodies == { << >> }

CreateSandbox ==
    \E net \in NetAnswers(SandboxBodies) :
        Complete("create_sandbox", "", create_sandbox(net))

DeleteSandbox ==
    \E id \in scope.sandbox_ids, net \in NetAnswers(OtherBodies) :
        Complete("delete_sandbox", id, delete_sandbox(id, net))

GetSandboxStatus ==
    \E id \in scope.sandbox_ids, net \in NetAnswers(StatusBodies) :
        Complete("get_sandbox_status", id, get_sandbox_status(id, net))

ListSandboxes == Complete("list_sandboxes", "", list_sandboxes)

GetTemplates ==
    \E net \in NetAnswers(OtherBodies) :
        Complete("get_templates", "", get_templates(net))

GetTemplate ==
    \E id \in TemplateIds, net \in NetAnswers(OtherBodies) :
        Complete("get_template", id, get_template(id, net))

CreateTemplate ==
    \E net \in NetAnswers(OtherBodies) :
        Complete("create_template", "", create_template(net))

\* run_code against a server whose 2xx bodies of POST /execute are `bodies`
RunCodeOn(bodies) ==
    \E id \in scope.sandbox_ids, opts \in scope.run_opts,
       net \in NetAnswers(bodies) :
        Complete("run_code", id, run_code(id, opts, net))

RunCode == RunCodeOn(ExecBodies)

RunTerminal ==
    \E id \in scope.sandbox_ids, opts \in scope.run_opts, net \in NetAnswers(TerminalBodies) :
        Complete("run_terminal", id, run_terminal(id, opts, net))

ReadFile ==
    \E id \in scope.sandbox_ids, net \in NetAnswers(OtherBodies) :
        Complete("read_file", id, read_file(id, net))

WriteFile ==
    \E id \in scope.sandbox_ids, net \in NetAnswers(OtherBodies) :
        Complete("write_file", id, write_file(id, net))

DeleteFile ==
    \E id \in scope.sandbox_ids, net \in NetAnswers(OtherBodies) :
        Complete("delete_file", id, delete_file(id, net))

ListFiles ==
    \E id \in scope.sandbox_ids, net \in NetAnswers(OtherBodies) :
        Complete("list_files", id, list_files(id, net))

CreateCodeContext ==
    \E id \in scope.sandbox_ids, t \in {None, Some(5000)},
       net \in NetAnswers(ContextBodies) :
        Complete("create_code_context", id, create_code_context(id, t, net))

DeleteCodeContext ==
    \E id \in scope.context_ids, net \in NetAnswers(OtherBodies) :
        Complete("delete_code_context", id, delete_code_context(id, net))

ListCodeContexts ==
    \E id \in scope.sandbox_ids :
        Complete("list_code_contexts", id, list_code_contexts(id))

\* time passes between two calls of the caller
ClockTick ==
    /\ now + Ms(scope.tick_ms) <= scope.ticks * Ms(scope.tick_ms)
    /\ now' = now + Ms(scope.tick_ms)
    /\ UNCHANGED <<request_timestamps, metrics_collector, active_sandboxes,
                   active_contexts, batch, last, timer_vars, scope,
                   concurrent_jobs, passed>>


----------------------------------------------------------------------------
(* Batch operations: execute_batch runs its jobs one after the other on the
   caller's thread; between two jobs time may pass *)

\* the jobs a caller submits: a job carries its id and its timeout
Jobs1 == [id |-> "job-a", timeout |-> Some(5000)]
Jobs2 == [id |-> "job-b", timeout |-> None]

\* job lists of every length up to MaxJobs in which neighbours differ
JobLists ==
    { [k \in 1..n |-> IF k % 2 = first THEN Jobs1 ELSE Jobs2] :
        n \in 0..MaxJobs, first \in {0, 1} }

\* lines 733-737: the cache check, then the empty result list
ExecuteBatchCall ==
    \E id \in scope.sandbox_ids, jobs \in JobLists, opts \in scope.run_opts :
        /\ batch.pc = "idle"
        /\ IF id \notin DOMAIN active_sandboxes
           THEN /\ last' = [NoCall EXCEPT !.op = "execute_batch", !.arg = id,
                                          !.error = NotFound]
                /\ UNCHANGED batch
           ELSE /\ batch' = [pc |-> "loop", sandbox_id |-> id, jobs |-> jobs,
                             opts |-> opts, results |-> << >>]
                /\ UNCHANGED last
        /\ UNCHANGED <<now, request_timestamps, metrics_collector,
                       active_sandboxes, active_contexts, timer_vars, scope,
                       concurrent_jobs, passed>>

\* the result record of a loop that keeps the first job's id for every record
JobRecordFirstId(job, r) ==
    IF r.error.type = "none"
    THEN [job_id |-> "job-a", success |-> TRUE, execution |-> r.value,
          error |-> ""]
    ELSE [job_id |-> "job-a", success |-> FALSE, execution |-> None,
          error |-> r.error.message]

\* the result record of one job (lines 751-763)
JobRecord(job, r) ==
    IF r.error.type = "none"
    THEN [job_id |-> job.id, success |-> TRUE, execution |-> r.value,
          error |-> ""]
    ELSE [job_id |-> job.id, success |-> FALSE, execution |-> None,
          error |-> r.error.message]

\* one iteration of the loop of lines 739-763: run_code for the next job
\* with the job's timeout merged into the options, then its record
ExecuteBatchJob ==
    \E net \in NetAnswers(ExecBodies) :
        /\ batch.pc = "loop"
        /\ Len(batch.results) < Len(batch.jobs)
        /\ LET job == batch.jobs[Len(batch.results) + 1]
               r == run_code(batch.sandbox_id,
                             [batch.opts EXCEPT !.timeout_ms = job.timeout],
                             net)
           IN
           /\ r.collector.metrics.total_requests <= scope.budget
           /\ request_timestamps' = r.timestamps
           /\ metrics_collector' = r.collector
           /\ active_sandboxes' = r.sandboxes
           /\ active_contexts' = r.contexts
           /\ last' = [op |-> "run_code", arg |-> batch.sandbox_id,
                       error |-> r.error, calls |-> r.calls,
                       value |-> r.value, events |-> r.events,
                       opts |-> r.opts, in_batch |-> TRUE]
           /\ batch' = [batch EXCEPT !.results = Append(@, JobRecord(job, r))]
           /\ passed' = IF r.passed THEN Append(passed, now) ELSE passed
        /\ UNCHANGED <<now, timer_vars, scope, concurrent_jobs>>

\* line 765: return results
ExecuteBatchReturn ==
    /\ batch.pc = "loop"
    /\ Len(batch.results) = Len(batch.jobs)
    /\ last' = [NoCall EXCEPT !.op = "execute_batch", !.arg = batch.sandbox_id,
                              !.value = [jobs |-> batch.jobs,
                                         results |-> batch.results]]
    /\ batch' = IdleBatch
    /\ UNCHANGED <<now, request_timestamps, metrics_collector,
                   active_sandboxes, active_contexts, timer_vars, scope,
                   concurrent_jobs, passed>>

----------------------------------------------------------------------------
(* Metrics & monitoring: the self-rescheduling Timer of
   _setup_metrics_collection and disconnect(). The caller's thread and the
   thread of a Timer interleave at the statements below; a Timer's interval is
   taken to outlast the callback of its predecessor. *)

\* Timer.run(): finished.wait(interval) returns; function() is called unless
\* cancel() has set the finished event
TimerExpire ==
    \E i \in DOMAIN timers :
        /\ timers[i].state = "waiting"
        /\ IF timers[i].cancelled
           THEN /\ timers' = [timers EXCEPT ![i].state = "finished"]
                /\ UNCHANGED callback_pc
           ELSE /\ callback_pc.pc = "idle"
                /\ timers' = [timers EXCEPT ![i].state = "running"]
                /\ callback_pc' = [pc |-> "snapshot", timer |-> i,
                                   snapshot |-> << >>]
        /\ UNCHANGED <<facade_vars, enable_metrics, metrics_interval,
                       disconnect_returned, scope, concurrent_jobs, passed>>

\* collect_metrics, lines 779-780: metrics = self.get_metrics(); self._log(..)
CollectMetricsSnapshot ==
    /\ callback_pc.pc = "snapshot"
    /\ callback_pc' = [callback_pc EXCEPT
                          !.pc = "create",
                          !.snapshot = Some(metrics_collector.metrics)]
    /\ UNCHANGED <<facade_vars, enable_metrics, metrics_interval, timers,
                   disconnect_returned, scope, concurrent_jobs, passed>>

\* collect_metrics, lines 781-785: self.metrics_interval = Timer(...)
CollectMetricsCreate ==
    /\ callback_pc.pc = "create"
    /\ Len(timers) < MaxTimers
    /\ timers' = Append(timers, NewTimer)
    /\ metrics_interval' = Some(Len(timers) + 1)
    /\ callback_pc' = [callback_pc EXCEPT !.pc = "start"]
    /\ UNCHANGED <<facade_vars, enable_metrics, disconnect_returned, scope,
                   concurrent_jobs, passed>>

\* collect_metrics, line 786: self.metrics_interval.start(); the callback
\* returns and Timer.run() of the expired timer sets its finished event
CollectMetricsStart ==
    /\ callback_pc.pc = "start"
    /\ timers' = [timers EXCEPT
                     ![metrics_interval[1]].state = "waiting",
                     ![callback_pc.timer] = [state |-> "finished",
                                             cancelled |-> TRUE]]
    /\ callback_pc' = [callback_pc EXCEPT !.pc = "idle", !.timer = 0]
    /\ UNCHANGED <<facade_vars, enable_metrics, metrics_interval,
                   disconnect_returned, scope, concurrent_jobs, passed>>

\* disconnect(): cancel the Timer self.metrics_interval refers to, if any
Disconnect ==
    /\ batch.pc = "idle"
    /\ timers' = IF metrics_interval # None
                 THEN [timers EXCEPT ![metrics_interval[1]].cancelled = TRUE]
                 ELSE timers
    /\ disconnect_returned' = TRUE
    /\ UNCHANGED <<facade_vars, enable_metrics, metrics_interval, callback_pc,
                   scope, concurrent_jobs, passed>>

----------------------------------------------------------------------------
(* Specifications *)

\* Rate limiting and the existence checks of the execution calls: one
\* sandbox id, created and deleted, with the clock running.
Next ==
    \/ CreateSandbox
    \/ DeleteSandbox
    \/ RunCode
    \/ RunTerminal
    \/ ClockTick

Spec == Init /\ [][Next]_vars

\* The caches: two sandbox ids and two context ids, the clock standing still.
InitCache ==
    /\ InitFacade
    /\ SetupMetricsCollection(FALSE)
    /\ scope = Scope(SandboxIds, ContextIds, {NoOpts}, MaxRequests + 1, 0, TickMs)

NextCache ==
    \/ CreateSandbox
    \/ DeleteSandbox
    \/ GetSandboxStatus
    \/ ListSandboxes
    \/ CreateCodeContext
    \/ DeleteCodeContext
    \/ ListCodeContexts

SpecCache == InitCache /\ [][NextCache]_vars

\* Every facade operation against one sandbox and one context.
InitOps ==
    /\ InitFacade
    /\ SetupMetricsCollection(FALSE)
    /\ scope = Scope({"s1"}, {"c1"}, RunOpts, MaxRequests, 0, TickMs)

NextOps ==
    \/ CreateSandbox
    \/ DeleteSandbox
    \/ GetSandboxStatus
    \/ ListSandboxes
    \/ GetTemplates
    \/ GetTemplate
    \/ CreateTemplate
    \/ RunCode
    \/ RunTerminal
    \/ ReadFile
    \/ WriteFile
    \/ DeleteFile
    \/ ListFiles
    \/ CreateCodeContext
    \/ DeleteCodeContext
    \/ ListCodeContexts

SpecOps == InitOps /\ [][NextOps]_vars

\* execute_batch on one sandbox; a step of the clock is a whole window.
BatchOpts == {NoOpts, [NoOpts EXCEPT !.handlers = AllHandlers, !.raise_at = 1]}

InitBatch ==
    /\ InitFacade
    /\ SetupMetricsCollection(FALSE)
    /\ scope = Scope({"s1"}, {}, BatchOpts, MaxJobs + 1, 1, WINDOW_MS)

NextBatch ==
    \/ CreateSandbox
    \/ ExecuteBatchCall
    \/ ExecuteBatchJob
    \/ ExecuteBatchReturn
    \/ ClockTick

SpecBatch == InitBatch /\ [][NextBatch]_vars

\* The periodic metrics task against disconnect(), with metrics collection
\* enabled or not, while the caller keeps issuing requests.
InitTimer ==
    /\ InitFacade
    /\ \E enabled \in BOOLEAN : SetupMetricsCollection(enabled)
    /\ scope = Scope({"s1"}, {}, {NoOpts}, MaxRequests, 0, TickMs)

NextTimer ==
    \/ TimerExpire
    \/ CollectMetricsSnapshot
    \/ CollectMetricsCreate
    \/ CollectMetricsStart
    \/ Disconnect
    \/ GetTemplates

SpecTimer == InitTimer /\ [][NextTimer]_vars

\* Every facade operation and execute_batch against two sandbox ids and one
\* context id.
InitAll ==
    /\ InitFacade
    /\ SetupMetricsCollection(FALSE)
    /\ scope = Scope(SandboxIds, {"c1"}, {NoOpts}, MaxRequests - 1, 0, TickMs)

NextAll ==
    \/ NextOps
    \/ ExecuteBatchCall
    \/ ExecuteBatchJob
    \/ ExecuteBatchReturn

SpecAll == InitAll /\ [][NextAll]_vars

\* The RateLimiter on its own: its three methods called in any order while
\* the clock advances by whole steps and, once per millisecond boundary, by
\* a fraction of a millisecond (time.time() * 1000 is a float).
LimiterCall(name, result, timestamps) ==
    /\ request_timestamps' = timestamps
    /\ last' = [NoCall EXCEPT !.op = name, !.arg = request_timestamps,
                              !.value = result]
    /\ UNCHANGED <<now, metrics_collector, active_sandboxes, active_contexts,
                   batch, timer_vars, scope, concurrent_jobs, passed>>

LimiterCanMakeRequest ==
    LimiterCall("can_make_request",
                Some(can_make_request(request_timestamps, now)),
                Unexpired(request_timestamps, now))

\* record_request() is unconditional: it may be called on a full limiter
LimiterRecordRequest ==
    /\ Len(request_timestamps) <= max_requests_per_minute
    /\ LimiterCall("record_request", None,
                   record_request(request_timestamps, now))

LimiterGetRetryAfter ==
    LimiterCall("get_retry_after",
                Some(get_retry_after(request_timestamps, now)),
                request_timestamps)

\* the clock moves by a fraction of a millisecond
FineTick ==
    /\ now % UnitsPerMs = 0
    /\ now < scope.ticks * Ms(scope.tick_ms)
    /\ now' = now + 1
    /\ UNCHANGED <<request_timestamps, metrics_collector, active_sandboxes,
                   active_contexts, batch, last, timer_vars, scope,
                   concurrent_jobs, passed>>

InitLimiter ==
    /\ InitFacade
    /\ SetupMetricsCollection(FALSE)
    /\ scope = Scope({}, {}, {NoOpts}, 0, MaxTicks, TickMs)

NextLimiter ==
    \/ LimiterCanMakeRequest
    \/ LimiterRecordRequest
    \/ LimiterGetRetryAfter
    \/ ClockTick
    \/ FineTick

SpecLimiter == InitLimiter /\ [][NextLimiter]_vars

\* The MetricsCollector on its own: its methods called in any order. A
\* behaviour starts with a new collector or with one that has recorded
\* MAX_RESPONSE_TIMES - 1 successful requests of Prerecorded ms each, and
\* makes up to MaxRecords calls of record_request on top of that.
ResponseTimes == {10, 20}
Durations == {5}
SandboxCounts == {0, 2}
Prerecorded == 10

\* the collector after n calls record_request(True, Prerecorded)
CollectorAfter(n) ==
    IF n = 0 THEN NewMetricsCollector
    ELSE [metrics |-> [MetricsData EXCEPT
                          !.total_requests = n,
                          !.successful_requests = n,
                          !.average_response_time = Ratio(n * Prerecorded, n)],
          response_times |-> [k \in 1..n |-> Prerecorded]]

CollectorCall(name, args, mc) ==
    /\ metrics_collector' = mc
    /\ last' = [NoCall EXCEPT !.op = name, !.value = args]
    /\ UNCHANGED <<now, request_timestamps, active_sandboxes, active_contexts,
                   batch, timer_vars, scope, concurrent_jobs, passed>>

CollectorRecordRequest ==
    \E success \in BOOLEAN, response_time \in ResponseTimes :
        /\ metrics_collector.metrics.total_requests < scope.budget
        /\ metrics_collector.metrics.total_requests
              >= scope.budget - MaxRecords
        /\ CollectorCall("metrics.record_request",
                         [success |-> success, response_time |-> response_time],
                         MetricsRecordRequest(metrics_collector, success,
                                              response_time))

CollectorRecordExecution ==
    \E duration \in Durations :
        /\ metrics_collector.metrics.total_execution_time
              < MaxExecutions * duration
        /\ CollectorCall("metrics.record_execution", [duration |-> duration],
                         MetricsRecordExecution(metrics_collector, duration))

CollectorUpdateActiveSandboxes ==
    \E count \in SandboxCounts :
        CollectorCall("metrics.update_active_sandboxes", [count |-> count],
                      MetricsUpdateActiveSandboxes(metrics_collector, count))

\* reset() takes no argument; the observation keeps the counters the call
\* discards
CollectorReset ==
    CollectorCall("metrics.reset", [before |-> metrics_collector.metrics],
                  MetricsReset(metrics_collector))

InitCollector ==
    /\ now = 0
    /\ request_timestamps = << >>
    /\ concurrent_jobs = 0
    /\ passed = << >>
    /\ active_sandboxes = EmptyDict
    /\ active_contexts = EmptyDict
    /\ batch = IdleBatch
    /\ last = NoCall
    /\ SetupMetricsCollection(FALSE)
    /\ \E n \in {0, MAX_RESPONSE_TIMES - 1} :
          /\ metrics_collector = CollectorAfter(n)
          /\ scope = Scope({}, {}, {NoOpts}, n + MaxRecords, 0, TickMs)

NextCollector ==
    \/ CollectorRecordRequest
    \/ CollectorRecordExecution
    \/ CollectorUpdateActiveSandboxes
    \/ CollectorReset

SpecCollector == InitCollector /\ [][NextCollector]_vars

\* The job counter of the RateLimiter, called in any order together with
\* can_make_request and record_request while the clock advances.
JobsCall(name, jobs) ==
    /\ concurrent_jobs' = jobs
    /\ last' = [NoCall EXCEPT !.op = name, !.arg = concurrent_jobs,
                              !.value = Some(jobs)]
    /\ UNCHANGED <<now, request_timestamps, metrics_collector,
                   active_sandboxes, active_contexts, batch, timer_vars, scope,
                   passed>>

IncrementConcurrentJobs ==
    /\ concurrent_jobs < MaxConcurrentJobs
    /\ JobsCall("increment_concurrent_jobs",
                increment_concurrent_jobs(concurrent_jobs))

DecrementConcurrentJobs ==
    JobsCall("decrement_concurrent_jobs",
             decrement_concurrent_jobs(concurrent_jobs))

GetConcurrentJobs == JobsCall("get_concurrent_jobs", concurrent_jobs)

InitJobs ==
    /\ InitFacade
    /\ SetupMetricsCollection(FALSE)
    /\ scope = Scope({}, {}, {NoOpts}, 0, 1, TickMs)

NextJobs ==
    \/ IncrementConcurrentJobs
    \/ DecrementConcurrentJobs
    \/ GetConcurrentJobs
    \/ LimiterCanMakeRequest
    \/ LimiterRecordRequest
    \/ ClockTick

SpecJobs == InitJobs /\ [][NextJobs]_vars

\* run_code with callbacks: every subset of the four callbacks, any of the
\* first MaxRaiseAt invocations raising, against executions with several
\* results and log lines.
CallbackBodies ==
    { [results |-> << << <<"text", "a">> >>,
                      << <<"text", "b">>, <<"is_main_result", TRUE>> >> >>,
       logs |-> [stdout |-> << "out 1", "out 2" >>, stderr |-> << "err 1" >>],
       error |-> Some([name |-> "ZeroDivisionError",
                       value |-> "division by zero",
                       traceback |-> "Traceback"])],
      [results |-> << << <<"text", "4">>, <<"is_main_result", TRUE>> >> >>,
       logs |-> [stdout |-> << >>, stderr |-> << "err 1", "err 2" >>],
       error |-> None],
      [results |-> << >>, logs |-> [stdout |-> << >>, stderr |-> << >>],
       error |-> None] }

CallbackOpts ==
    { [NoOpts EXCEPT !.handlers = h, !.raise_at = r] :
        h \in SUBSET AllHandlers, r \in 0..MaxRaiseAt }

RunCodeCallbacks == RunCodeOn(CallbackBodies)

InitCallbacks ==
    /\ InitFacade
    /\ SetupMetricsCollection(FALSE)
    /\ scope = Scope({"s1"}, {}, CallbackOpts, MaxRequests - 1, 0, TickMs)

NextCallbacks ==
    \/ CreateSandbox
    \/ RunCodeCallbacks

SpecCallbacks == InitCallbacks /\ [][NextCallbacks]_vars

\* The two caches against a server that returns every created context with
\* the sandbox id of the request.
ContextBodiesOf(sandbox_id) ==
    [id : scope.context_ids, sandbox_id : {Some(sandbox_id)}]

CreateCodeContextOf ==
    \E id \in scope.sandbox_ids, t \in {None, Some(5000)} :
        \E net \in NetAnswers(ContextBodiesOf(id)) :
            Complete("create_code_context", id,
                     create_code_context(id, t, net))

InitContexts ==
    /\ InitFacade
    /\ SetupMetricsCollection(FALSE)
    /\ scope = Scope(SandboxIds, ContextIds, {NoOpts}, MaxRequests + 1, 0,
                     TickMs)

NextContexts ==
    \/ CreateSandbox
    \/ DeleteSandbox
    \/ GetSandboxStatus
    \/ ListSandboxes
    \/ CreateCodeContextOf
    \/ DeleteCodeContext
    \/ ListCodeContexts

SpecContexts == InitContexts /\ [][NextContexts]_vars

\* The rate-limited calls, single and in batches, on one sandbox id while
\* the clock advances by half windows through a window and a half; two
\* network calls are enough to create the sandbox and run a job on it (a
\* run_code on an id that is not cached passes the check without one).
InitWindow ==
    /\ InitFacade
    /\ SetupMetricsCollection(FALSE)
    /\ scope = Scope({"s1"}, {}, {NoOpts}, 2, 3, WINDOW_MS \div 2)

NextWindow ==
    \/ CreateSandbox
    \/ RunCode
    \/ RunTerminal
    \/ ExecuteBatchCall
    \/ ExecuteBatchJob
    \/ ExecuteBatchReturn
    \/ ClockTick

SpecWindow == InitWindow /\ [][NextWindow]_vars

\* A caller that, once rejected with RateLimitError, may wait the retry_after
\* milliseconds the error carries before its next call, on a clock that also
\* moves by fractions of a millisecond.
WaitRetryAfter ==
    /\ batch.pc = "idle"
    /\ last.error.type = "RateLimitError"
    /\ LET retry_after == last.error.retry_after[1] IN
       /\ now + Ms(retry_after) <= scope.ticks * Ms(scope.tick_ms)
       /\ now' = now + Ms(retry_after)
    /\ last' = [NoCall EXCEPT !.op = "wait"]
    /\ UNCHANGED <<request_timestamps, metrics_collector, active_sandboxes,
                   active_contexts, batch, timer_vars, scope,
                   concurrent_jobs, passed>>

InitRetry ==
    /\ InitFacade
    /\ SetupMetricsCollection(FALSE)
    /\ scope = Scope({"s1"}, {}, {NoOpts}, 1, MaxTicks, TickMs)

NextRetry ==
    \/ CreateSandbox
    \/ RunCode
    \/ WaitRetryAfter
    \/ ClockTick
    \/ FineTick

SpecRetry == InitRetry /\ [][NextRetry]_vars

\* The data classes alone: behaviours start from a response of POST
\* /execute whose "results" list is drawn from the bounded sets below, and
\* decode it.
DecoderKeys == {"text", "html", "chart", "type", "is_main_result", "foo", "bar"}

RawValues(key) ==
    IF key = "is_main_result" THEN BOOLEAN
    ELSE IF key = "type" THEN {"result"}
    ELSE {"", "v"}

RawPairs == UNION { { <<k, v>> : v \in RawValues(k) } : k \in DecoderKeys }

\* raw result entries: JSON objects of up to MaxKeys keys, in every order
RawEntries ==
    UNION { { e \in [1..n -> RawPairs] :
                \A i, j \in 1..n : i # j => e[i][1] # e[j][1] } :
            n \in 0..MaxKeys }

\* raw result entries with at most a text and a main flag
TextEntries ==
    { (IF t = "absent" THEN << >> ELSE << <<"text", t>> >>)
      \o (IF m = "absent" THEN << >>
          ELSE << <<"is_main_result", m = "true">> >>) :
        t \in {"absent", "", "a", "b"}, m \in {"absent", "true", "false"} }

RawResults ==
    { << e >> : e \in RawEntries }
    \cup UNION { [1..n -> TextEntries] : n \in 0..MaxResults }

DecoderCall(name, arg, value) ==
    /\ last' = [NoCall EXCEPT !.op = name, !.arg = arg, !.value = value]
    /\ UNCHANGED <<now, request_timestamps, metrics_collector,
                   active_sandboxes, active_contexts, batch, timer_vars, scope,
                   concurrent_jobs, passed>>

\* Result(r, r.get("is_main_result", False)) on one entry of the response
DecodeResult ==
    /\ last.op = "response"
    /\ \E i \in DOMAIN last.value.results :
          LET r == last.value.results[i] IN
          DecoderCall("Result", r, Result(r, Get(r, "is_main_result", FALSE)))

ResultFormats ==
    /\ last.op = "Result"
    /\ DecoderCall("Result.formats", last.value, formats(last.value))

\* Execution.text of the execution decoded from the response
ExecutionText ==
    /\ last.op = "response"
    /\ LET execution == DecodeExecution(last.value) IN
       DecoderCall("Execution.text", execution.results,
                   text(execution.results))

InitDecoder ==
    /\ now = 0
    /\ request_timestamps = << >>
    /\ concurrent_jobs = 0
    /\ passed = << >>
    /\ metrics_collector = NewMetricsCollector
    /\ active_sandboxes = EmptyDict
    /\ active_contexts = EmptyDict
    /\ batch = IdleBatch
    /\ SetupMetricsCollection(FALSE)
    /\ scope = Scope({}, {}, {NoOpts}, 0, 0, TickMs)
    /\ \E results \in RawResults :
          last = [NoCall EXCEPT
                    !.op = "response",
                    !.value = [results |-> results,
                               logs |-> [stdout |-> << >>, stderr |-> << >>],
                               error |-> None]]

NextDecoder ==
    \/ DecodeResult
    \/ ResultFormats
    \/ ExecutionText

SpecDecoder == InitDecoder /\ [][NextDecoder]_vars

\* Construction: behaviours start before SandboxSDK(config) is called, with
\* no attribute of the client assigned and no Timer object in the process,
\* and construct one client from a config with or without its two required
\* entries; a constructed client runs the periodic task and is disconnected.
Unset == "unset"

ClientAttributes ==
    {"config", "active_sandboxes", "active_contexts", "metrics_collector",
     "rate_limiter", "metrics_interval"}

ConfigurationError(message) ==
    [type |-> "SandboxSDKError", reason |-> "config", message |-> message,
     retry_after |-> None, timeout |-> None]

Configs ==
    [api_key : {None, Some(""), Some("key")},
     server_url : {None, Some(""), Some("http://localhost:8000")},
     enable_metrics : BOOLEAN]

\* SandboxSDK.__init__ validating the config after setting up the client
SandboxSDK_init_validates_last(config) ==
    [error |-> IF ~Truthy(config.api_key)
               THEN ConfigurationError("Invalid API key provided")
               ELSE IF ~Truthy(config.server_url)
               THEN ConfigurationError("Invalid server URL provided")
               ELSE NoError,
     attrs |-> ClientAttributes,
     start_timer |-> config.enable_metrics]

\* SandboxSDK.__init__(config): the exception raised, the attributes
\* assigned, and whether _setup_metrics_collection() starts the first Timer
SandboxSDK_init(config) ==
    IF ~Truthy(config.api_key)
    THEN [error |-> ConfigurationError("Invalid API key provided"),
          attrs |-> {}, start_timer |-> FALSE]
    ELSE IF ~Truthy(config.server_url)
    THEN [error |-> ConfigurationError("Invalid server URL provided"),
          attrs |-> {}, start_timer |-> FALSE]
    ELSE [error |-> NoError, attrs |-> ClientAttributes,
          start_timer |-> config.enable_metrics]

Construct ==
    /\ last.op = "config"
    /\ LET config == last.arg
           r == SandboxSDK_init(config)
       IN
       /\ last' = [NoCall EXCEPT !.op = "SandboxSDK", !.arg = config,
                                 !.error = r.error, !.value = r.attrs]
       /\ enable_metrics' = IF "config" \in r.attrs
                            THEN config.enable_metrics ELSE enable_metrics
       /\ active_sandboxes' = IF "active_sandboxes" \in r.attrs
                              THEN EmptyDict ELSE active_sandboxes
       /\ active_contexts' = IF "active_contexts" \in r.attrs
                             THEN EmptyDict ELSE active_contexts
       /\ metrics_collector' = IF "metrics_collector" \in r.attrs
                               THEN NewMetricsCollector ELSE metrics_collector
       /\ request_timestamps' = IF "rate_limiter" \in r.attrs
                                THEN << >> ELSE request_timestamps
       /\ concurrent_jobs' = IF "rate_limiter" \in r.attrs
                             THEN 0 ELSE concurrent_jobs
       /\ metrics_interval' = IF "metrics_interval" \in r.attrs
                              THEN (IF r.start_timer THEN Some(1) ELSE None)
                              ELSE metrics_interval
       /\ timers' = IF r.start_timer
                    THEN << [NewTimer EXCEPT !.state = "waiting"] >>
                    ELSE timers
    /\ UNCHANGED <<now, batch, callback_pc, disconnect_returned, scope,
                   passed>>

\* a client exists: the constructor has returned without an exception
Constructed ==
    /\ last.op # "config"
    /\ ~(last.op = "SandboxSDK" /\ last.error.type # "none")

InitConstruct ==
    /\ now = 0
    /\ batch = IdleBatch
    /\ enable_metrics = Unset
    /\ active_sandboxes = Unset
    /\ active_contexts = Unset
    /\ metrics_collector = Unset
    /\ request_timestamps = Unset
    /\ concurrent_jobs = Unset
    /\ passed = << >>
    /\ metrics_interval = Unset
    /\ timers = << >>
    /\ callback_pc = NoCallback
    /\ disconnect_returned = FALSE
    /\ scope = Scope({"s1"}, {}, {NoOpts}, MaxRequests, 0, TickMs)
    /\ \E config \in Configs :
          last = [NoCall EXCEPT !.op = "config", !.arg = config]

NextConstruct ==
    \/ Construct
    \/ Constructed /\ NextTimer

SpecConstruct == InitConstruct /\ [][NextConstruct]_vars

----------------------------------------------------------------------------
(* Properties *)

RateLimitedOps == {"create_sandbox", "run_code", "run_terminal"}

\* the limiter holds max_requests_per_minute timestamps younger than 60000 ms
LimiterFull ==
    Len(Unexpired(request_timestamps, now)) >= max_requests_per_minute

\* the network call the last facade call ended with
LastCall == last.calls[Len(last.calls)]

\* C1: run_code or run_terminal on a sandbox id that is not in the cache
\* fails with SandboxError (not found) and issues no network call, whatever
\* the state of the caches, the rate limiter and the metrics.
C1_UncachedRunRaisesSandboxError ==
    (last.op \in {"run_code", "run_terminal"}
        /\ last.arg \notin DOMAIN active_sandboxes)
    => (/\ last.error.type = "SandboxError"
        /\ last.error.reason = "not_found"
        /\ last.calls = << >>)

\* C2: with the limiter full, create_sandbox, run_code and run_terminal
\* raise RateLimitError carrying get_retry_after(), issue no network call,
\* and leave the caches, the metrics and the unexpired timestamps as they
\* were (no timestamp is recorded).
C2_RejectedWhenFull ==
    [][ (LimiterFull /\ now' = now /\ last'.op \in RateLimitedOps)
        => (/\ last'.error =
                 RateLimitError(
                     get_retry_after(Unexpired(request_timestamps, now), now))
            /\ last'.calls = << >>
            /\ active_sandboxes' = active_sandboxes
            /\ active_contexts' = active_contexts
            /\ metrics_collector' = metrics_collector
            /\ request_timestamps' = Unexpired(request_timestamps, now)) ]_vars

\* C2 witness: create_sandbox was rejected after the oldest timestamp had aged
C2_Witness ==
    /\ last.op = "create_sandbox"
    /\ last.error.type = "RateLimitError"
    /\ last.error.retry_after[1] < WINDOW_MS
    /\ last.error.retry_after[1] > 0

\* C3: execute_batch returns one record per job, and a job whose execute
\* response carries an error is recorded success:false with a non-empty
\* error string (so no record marked success holds an execution with an
\* error).
C3_ErroringJobRecordedAsFailure ==
    (last.op = "execute_batch" /\ last.error.type = "none")
    => (/\ Len(last.value.results) = Len(last.value.jobs)
        /\ \A k \in 1..Len(last.value.results) :
              LET rec == last.value.results[k] IN
              /\ rec.success => rec.execution[1].error = None
              /\ ~ rec.success => rec.error # "")

\* C4: once disconnect() has returned, no periodic metrics task is pending:
\* no Timer is waiting for its interval with its finished event unset.
C4_NoTaskAfterDisconnect ==
    disconnect_returned
    => \A i \in DOMAIN timers :
          ~ (timers[i].state = "waiting" /\ ~ timers[i].cancelled)

\* C5: a non-timeout transport failure whose response carries a structured
\* JSON body with a message raises SandboxError with that message.
C5_ServerMessageUsed ==
    (last.error.reason = "transport"
        /\ LastCall.answer.body.kind = "json"
        /\ LastCall.answer.body.json # None)
    => last.error.message = LastCall.answer.body.json[1]

\* C6: the TimeoutError of a call that timed out carries the timeout that
\* was applied to the call (the override, else the configured timeout).
C6_TimeoutCarriesAppliedValue ==
    last.error.type = "TimeoutError"
    => last.error.timeout = Some(Some(LastCall.timeout))

\* C7 as stated: while the limiter has no free slot, no facade operation
\* issues a network request.
C7_NoCallWhileLimiterFull ==
    [][ LimiterFull => last'.calls = << >> ]_vars

\* C7 as amended: create_sandbox, run_code and run_terminal issue no network
\* request while the limiter has no free slot; every other facade operation
\* leaves the limiter as it is (it does not consult it).
C7_OnlyCreateAndRunAreLimited ==
    [][ /\ (LimiterFull /\ last'.op \in RateLimitedOps)
            => (last'.calls = << >> /\ last'.error.type = "RateLimitError")
        /\ last'.op \notin RateLimitedOps
            => request_timestamps' = request_timestamps ]_vars

\* C7 witness: run_terminal on a cached sandbox was rejected by the limiter
C7_Witness ==
    /\ LimiterFull
    /\ last.op = "run_terminal"
    /\ last.arg \in DOMAIN active_sandboxes
    /\ last.error.type = "RateLimitError"

\* C8: after delete_sandbox(id) no cached context has sandbox_id = id, so
\* list_code_contexts(id) is empty, and the contexts of other sandboxes are
\* in the cache unchanged.
C8_DeleteSandboxCascades ==
    [][ last'.op = "delete_sandbox"
        => (/\ \A c \in DOMAIN active_contexts' :
                  active_contexts'[c].sandbox_id # Some(last'.arg)
            /\ (list_code_contexts(last.arg).value)' = {}
            /\ DOMAIN active_contexts' \subseteq DOMAIN active_contexts
            /\ \A c \in DOMAIN active_contexts :
                  active_contexts[c].sandbox_id # Some(last'.arg)
                  => (/\ c \in DOMAIN active_contexts'
                      /\ active_contexts'[c] = active_contexts[c])) ]_vars

\* C8 witness: a sandbox was deleted and the context of another sandbox stays
C8_Witness ==
    /\ last.op = "delete_sandbox"
    /\ last.arg = "s1"
    /\ \E c \in DOMAIN active_contexts :
          active_contexts[c].sandbox_id = Some("s2")
    /\ metrics_collector.metrics.successful_requests = MaxRequests + 1

\* C9: delete_sandbox(id) issues exactly one DELETE /api/sandboxes/{id},
\* cached or not, and is never rejected locally.
C9_DeleteAlwaysIssued ==
    last.op = "delete_sandbox"
    => (/\ Len(last.calls) = 1
        /\ last.calls[1].method = "DELETE"
        /\ last.calls[1].endpoint = <<"sandboxes", last.arg>>
        /\ last.error.reason \notin {"not_found", "rate_limit"})

\* C9 witness: the first network call of the client is the DELETE of a
\* sandbox that was never cached
C9_Witness ==
    /\ last.op = "delete_sandbox"
    /\ metrics_collector.metrics.total_requests = 1
    /\ last.error.type = "none"

\* C10: execute_batch keeps one record per job attempted, the k-th carrying
\* the k-th job's id; a job that fails gets a success:false record and the
\* loop goes on; each iteration issues at most one call, that of the next
\* job in order, and the batch returns with one record per job.
C10_BatchSequential ==
    /\ [](batch.pc = "loop"
          => (/\ Len(batch.results) <= Len(batch.jobs)
              /\ \A k \in 1..Len(batch.results) :
                    batch.results[k].job_id = batch.jobs[k].id))
    /\ []((last.op = "execute_batch" /\ last.error.type = "none")
          => (/\ Len(last.value.results) = Len(last.value.jobs)
              /\ \A k \in 1..Len(last.value.results) :
                    last.value.results[k].job_id = last.value.jobs[k].id))
    /\ [][ (/\ batch.pc = "loop"
            /\ Len(batch.results) < Len(batch.jobs)
            /\ batch' # batch)
           => LET k == Len(batch.results) + 1 IN
              /\ batch'.pc = "loop"
              /\ batch'.jobs = batch.jobs
              /\ Len(batch'.results) = k
              /\ SubSeq(batch'.results, 1, k - 1) = batch.results
              /\ batch'.results[k].success = (last'.error.type = "none")
              /\ Len(last'.calls) <= 1
              /\ last'.calls # << >>
                 => last'.calls[1].timeout =
                        AppliedTimeout(batch.jobs[k].timeout) ]_vars

\* C10 witness: a returned batch of three jobs whose first job failed on a
\* timeout, whose second was rejected by the limiter and whose third succeeded
C10_Witness ==
    /\ last.op = "execute_batch"
    /\ last.error.type = "none"
    /\ Len(last.value.results) = 3
    /\ ~ last.value.results[1].success
    /\ last.value.results[1].error = "Request timeout"
    /\ last.value.results[2].error = "Rate limit exceeded"
    /\ last.value.results[3].success

\* the operations that check the sandbox cache and do nothing else locally
CacheCheckedOps ==
    {"get_sandbox_status", "read_file", "write_file", "delete_file",
     "list_files", "create_code_context", "execute_batch"}

\* C11: get_sandbox_status, the four file operations, create_code_context
\* and execute_batch, called with a sandbox id that is not in the cache, raise
\* SandboxError (not found), issue no network call and leave the metrics
\* (counters and samples) as they were.
C11_UncachedIdRejectedLocally ==
    [][ (last'.op \in CacheCheckedOps
            /\ last'.arg \notin DOMAIN active_sandboxes)
        => (/\ last'.error = NotFound
            /\ last'.calls = << >>
            /\ metrics_collector' = metrics_collector) ]_vars

\* C11 witness: execute_batch on an uncached id was rejected while another
\* sandbox is cached and requests have been recorded
C11_Witness ==
    /\ last.op = "execute_batch"
    /\ last.arg = "s2"
    /\ last.error = NotFound
    /\ "s1" \in DOMAIN active_sandboxes
    /\ metrics_collector.metrics.total_requests > 0

\* C12: create_sandbox that succeeds with a response holding a sandbox with
\* id i leaves the cache mapping i to that sandbox and every other id as it
\* was (list_sandboxes contains the sandbox, get_sandbox_status(i) passes the
\* existence check); a create_sandbox that fails (rate limit, timeout,
\* transport error) or whose response holds no sandbox leaves the cache
\* unchanged.
C12_CreateCachesSandbox ==
    [][ last'.op = "create_sandbox"
        => IF last'.error.type = "none" /\ last'.value.sandbox # None
           THEN /\ active_sandboxes' =
                       [x \in DOMAIN active_sandboxes
                                 \cup {last'.value.sandbox[1].id} |->
                           IF x = last'.value.sandbox[1].id
                           THEN last'.value.sandbox[1]
                           ELSE active_sandboxes[x]]
                /\ (last.value.sandbox[1] \in list_sandboxes.value)'
                /\ \A net \in NetAnswers(StatusBodies) :
                      (get_sandbox_status(last.value.sandbox[1].id,
                                          net).error.reason # "not_found")'
           ELSE active_sandboxes' = active_sandboxes ]_vars

\* C12 witness: a second sandbox was created and cached next to one whose
\* status had been refreshed
C12_Witness ==
    /\ last.op = "create_sandbox"
    /\ last.error.type = "none"
    /\ last.value.sandbox # None
    /\ last.value.sandbox[1].id = "s2"
    /\ DOMAIN active_sandboxes = {"s1", "s2"}
    /\ active_sandboxes["s1"].status = "running"

\* C13: get_sandbox_status(id) on a cached id whose GET succeeds sets the
\* cached status of id to the status of the server's response and returns
\* that value, whatever the previous status; the other fields of the entry,
\* the other sandboxes and the contexts stay as they were; when the GET
\* fails the caches are unchanged.
C13_StatusCachedVerbatim ==
    [][ (last'.op = "get_sandbox_status"
            /\ last'.arg \in DOMAIN active_sandboxes)
        => (/\ active_contexts' = active_contexts
            /\ Len(last'.calls) = 1
            /\ IF last'.calls[1].answer.kind = "ok"
               THEN /\ last'.error.type = "none"
                    /\ last'.value = Some(last'.calls[1].answer.data.status)
                    /\ active_sandboxes' =
                          [x \in DOMAIN active_sandboxes |->
                              IF x = last'.arg
                              THEN [id |-> active_sandboxes[x].id,
                                    status |->
                                       last'.calls[1].answer.data.status]
                              ELSE active_sandboxes[x]]
               ELSE /\ last'.error.type # "none"
                    /\ active_sandboxes' = active_sandboxes) ]_vars

\* C13 witness: a refresh took s1 from "ready", the status it was created
\* with, to "running", next to another sandbox and a context in the cache
C13_Witness ==
    /\ last.op = "get_sandbox_status"
    /\ last.arg = "s1"
    /\ last.value = Some("running")
    /\ DOMAIN active_sandboxes = {"s1", "s2"}
    /\ active_sandboxes["s1"].status = "running"
    /\ active_sandboxes["s2"].status = "ready"
    /\ active_contexts # EmptyDict

\* C14: delete_code_context(cid) with cid not cached issues no call and
\* changes nothing; with cid cached the context is gone from the cache
\* afterwards, whether the DELETE succeeds or fails, the other contexts and
\* the sandboxes stay, and the DELETE of sandboxes/{sandbox_id}/contexts/{cid}
\* is issued exactly when the cached context carried a sandbox_id.
C14_DeleteContextRemovesFirst ==
    [][ last'.op = "delete_code_context"
        => IF last'.arg \notin DOMAIN active_contexts
           THEN /\ last'.calls = << >>
                /\ last'.error = NoError
                /\ active_contexts' = active_contexts
                /\ active_sandboxes' = active_sandboxes
                /\ metrics_collector' = metrics_collector
                /\ request_timestamps' = request_timestamps
           ELSE /\ active_contexts' =
                       [c \in DOMAIN active_contexts \ {last'.arg} |->
                           active_contexts[c]]
                /\ active_sandboxes' = active_sandboxes
                /\ IF active_contexts[last'.arg].sandbox_id = None
                   THEN /\ last'.calls = << >>
                        /\ last'.error = NoError
                        /\ metrics_collector' = metrics_collector
                   ELSE /\ Len(last'.calls) = 1
                        /\ last'.calls[1].method = "DELETE"
                        /\ last'.calls[1].endpoint =
                              <<"sandboxes",
                                active_contexts[last'.arg].sandbox_id[1],
                                "contexts", last'.arg>> ]_vars

\* C14 witness: the DELETE of a cached context timed out and the context is
\* gone from the cache while another context stays
C14_Witness ==
    /\ last.op = "delete_code_context"
    /\ last.error.type = "TimeoutError"
    /\ last.arg \notin DOMAIN active_contexts
    /\ active_contexts # EmptyDict

\* C15: a facade operation issues at most one network call per invocation,
\* exactly one when its call timed out or failed on the transport (the call
\* is not repeated), and records at most one request; an iteration of
\* execute_batch adds one record and issues at most one call.
C15_AtMostOneCall ==
    /\ [](Len(last.calls) <= 1)
    /\ [](last.error.reason \in {"timeout", "transport"}
            => Len(last.calls) = 1)
    /\ [][ /\ metrics_collector'.metrics.total_requests
                = metrics_collector.metrics.total_requests
                  + (IF metrics_collector' # metrics_collector
                     THEN Len(last'.calls) ELSE 0)
           /\ (batch.pc = "loop" /\ batch'.pc = "loop" /\ batch' # batch)
               => (/\ Len(batch'.results) = Len(batch.results) + 1
                   /\ last'.in_batch
                   /\ Len(last'.calls) <= 1) ]_vars

\* C15 witness: the call of a job of execute_batch timed out and the job
\* ended with that one call
C15_Witness ==
    /\ batch.pc = "loop"
    /\ last.in_batch
    /\ last.error.type = "TimeoutError"
    /\ Len(last.calls) = 1

\* the timestamps of `old` from position k + 1 on are `new`, those up to k
\* are the ones dropped
DropsPrefix(old, new, k) ==
    /\ k \in 0..Len(old)
    /\ new = SubSeq(old, k + 1, Len(old))

\* C16 as stated: can_make_request() returns true exactly when fewer than
\* max_requests_per_minute timestamps remain after discarding those older
\* than 60000 ms (a timestamp aged exactly 60000 ms is not older and
\* remains), and the limiter afterwards holds exactly the remaining ones.
C16_DiscardsOlderThanWindow ==
    [][ (last'.op = "can_make_request" /\ now' = now)
        => (/\ last'.value =
                  Some(Cardinality({k \in DOMAIN request_timestamps :
                          now - request_timestamps[k] <= Ms(WINDOW_MS)})
                       < max_requests_per_minute)
            /\ \E k \in 0..Len(request_timestamps) :
                  /\ DropsPrefix(request_timestamps, request_timestamps', k)
                  /\ \A i \in DOMAIN request_timestamps :
                        (i > k) <=> (now - request_timestamps[i]
                                        <= Ms(WINDOW_MS))) ]_vars

\* C16 as amended: can_make_request() returns true exactly when fewer than
\* max_requests_per_minute timestamps remain after discarding those aged
\* 60000 ms or more (it keeps ts > now - 60000), the limiter afterwards holds
\* exactly the remaining ones in their order, and nothing else changes.
C16_DiscardsAgedWindowOrMore ==
    [][ (last'.op = "can_make_request" /\ now' = now)
        => (/\ last'.value =
                  Some(Cardinality({k \in DOMAIN request_timestamps :
                          now - request_timestamps[k] < Ms(WINDOW_MS)})
                       < max_requests_per_minute)
            /\ \E k \in 0..Len(request_timestamps) :
                  /\ DropsPrefix(request_timestamps, request_timestamps', k)
                  /\ \A i \in DOMAIN request_timestamps :
                        (i > k) <=> (now - request_timestamps[i]
                                        < Ms(WINDOW_MS))
            /\ UNCHANGED <<metrics_collector, active_sandboxes,
                           active_contexts>>) ]_vars

\* C16 witness: can_make_request() returned true on a limiter that held
\* max_requests_per_minute timestamps, the oldest aged exactly 60000 ms
C16_Witness ==
    /\ last.op = "can_make_request"
    /\ last.value = Some(TRUE)
    /\ Len(last.arg) = max_requests_per_minute
    /\ now - last.arg[1] = Ms(WINDOW_MS)
    /\ Len(request_timestamps) = max_requests_per_minute - 1

\* C17: on a limiter holding max_requests_per_minute timestamps younger than
\* 60000 ms can_make_request() returns false; when the oldest of
\* max_requests_per_minute timestamps has aged past 60000 ms and the others
\* have not, can_make_request() returns true and drops exactly the oldest;
\* a record_request() that follows while the others are still inside the
\* window fills it again, so that can_make_request() is false.
C17_CapacityFreesByOne ==
    [][ /\ (/\ last'.op = "can_make_request" /\ now' = now
            /\ Len(request_timestamps) >= max_requests_per_minute
            /\ \A k \in DOMAIN request_timestamps :
                  now - request_timestamps[k] < Ms(WINDOW_MS))
           => (/\ last'.value = Some(FALSE)
               /\ request_timestamps' = request_timestamps)
        /\ (/\ last'.op = "can_make_request" /\ now' = now
            /\ Len(request_timestamps) = max_requests_per_minute
            /\ now - request_timestamps[1] > Ms(WINDOW_MS)
            /\ \A k \in 2..Len(request_timestamps) :
                  now - request_timestamps[k] < Ms(WINDOW_MS))
           => (/\ last'.value = Some(TRUE)
               /\ request_timestamps' = Tail(request_timestamps))
        /\ (/\ last.op = "can_make_request" /\ last.value = Some(TRUE)
            /\ Len(last.arg) = max_requests_per_minute
            /\ Len(request_timestamps) = max_requests_per_minute - 1
            /\ \A k \in DOMAIN request_timestamps :
                  now - request_timestamps[k] < Ms(WINDOW_MS)
            /\ last'.op = "record_request" /\ now' = now)
           => (/\ Len(request_timestamps') = max_requests_per_minute
               /\ ~ can_make_request(request_timestamps', now')) ]_vars

\* C17 witness: the window was full, its oldest timestamp aged past 60000 ms
\* while the others are inside the window, and can_make_request() returned
\* true, dropping the oldest only
C17_Witness ==
    /\ last.op = "can_make_request"
    /\ last.value = Some(TRUE)
    /\ Len(last.arg) = max_requests_per_minute
    /\ now - last.arg[1] > Ms(WINDOW_MS)
    /\ request_timestamps = Tail(last.arg)
    /\ \A k \in DOMAIN request_timestamps :
          now - request_timestamps[k] < Ms(WINDOW_MS)

\* C18: get_retry_after() returns 0 when no timestamp is recorded and
\* otherwise max(0, 60000 - (now - oldest)) milliseconds, the oldest being
\* the first timestamp; the result is never negative, never above 60000,
\* and the limiter state is not modified.
C18_RetryAfterIsRemainingWindow ==
    [][ (last'.op = "get_retry_after" /\ now' = now)
        => (/\ request_timestamps' = request_timestamps
            /\ last'.value[1] >= 0
            /\ last'.value[1] <= WINDOW_MS
            /\ IF request_timestamps = << >>
               THEN last'.value = Some(0)
               ELSE Ms(last'.value[1]) =
                       Max(Ms(WINDOW_MS) - (now - request_timestamps[1]),
                           0)) ]_vars

\* C19: in every state of a MetricsCollector total_requests equals
\* successful_requests + failed_requests; each record_request adds 1 to
\* total_requests and 1 to exactly one of the other two, the one its
\* `success` names; a call other than reset decreases none of the three.
C19_CountersAddUp ==
    /\ [](metrics_collector.metrics.total_requests =
             metrics_collector.metrics.successful_requests
             + metrics_collector.metrics.failed_requests)
    /\ [][ LET m == metrics_collector.metrics
               n == metrics_collector'.metrics
           IN
           /\ last'.op = "metrics.record_request"
              => (/\ n.total_requests = m.total_requests + 1
                  /\ n.successful_requests = m.successful_requests
                        + (IF last'.value.success THEN 1 ELSE 0)
                  /\ n.failed_requests = m.failed_requests
                        + (IF last'.value.success THEN 0 ELSE 1))
           /\ last'.op # "metrics.reset"
              => (/\ n.total_requests >= m.total_requests
                  /\ n.successful_requests >= m.successful_requests
                  /\ n.failed_requests >= m.failed_requests) ]_vars

\* C19 witness: a failed request was recorded after successful ones, an
\* execution and a sandbox count
C19_Witness ==
    /\ last.op = "metrics.record_request"
    /\ ~ last.value.success
    /\ metrics_collector.metrics.failed_requests >= 1
    /\ metrics_collector.metrics.successful_requests >= 1
    /\ metrics_collector.metrics.total_execution_time > 0
    /\ metrics_collector.metrics.active_sandboxes > 0

Min(a, b) == IF a <= b THEN a ELSE b

\* C20: after n >= 1 calls of record_request since construction or the last
\* reset (n is total_requests) the buffer holds min(n, 1000) samples, never
\* more than 1000, and average_response_time is the arithmetic mean of the
\* buffer; each record_request leaves in the buffer the last min(len + 1,
\* 1000) samples of the old buffer followed by the new sample, so the oldest
\* sample is the one evicted.
C20_BufferHoldsLastSamples ==
    /\ [](Len(metrics_collector.response_times) =
             Min(metrics_collector.metrics.total_requests,
                 MAX_RESPONSE_TIMES))
    /\ [](metrics_collector.metrics.total_requests >= 1
            => LET avg == metrics_collector.metrics.average_response_time
                   buf == metrics_collector.response_times
               IN /\ avg.den > 0
                  /\ avg.num * Len(buf) = avg.den * SumSeq(buf))
    /\ [][ last'.op = "metrics.record_request"
           => LET all == Append(metrics_collector.response_times,
                                last'.value.response_time)
                  m == Min(Len(all), MAX_RESPONSE_TIMES)
              IN metrics_collector'.response_times =
                    SubSeq(all, Len(all) - m + 1, Len(all)) ]_vars

\* C20 witness: two samples were recorded on a full buffer, which holds the
\* capacity with the two new samples last, and the average moved
C20_Witness ==
    /\ metrics_collector.metrics.total_requests = MAX_RESPONSE_TIMES + 2
    /\ Len(metrics_collector.response_times) = MAX_RESPONSE_TIMES
    /\ metrics_collector.response_times[MAX_RESPONSE_TIMES] = 20
    /\ metrics_collector.response_times[MAX_RESPONSE_TIMES - 1] = 20
    /\ metrics_collector.response_times[1] = Prerecorded
    /\ metrics_collector.metrics.average_response_time
          # Ratio(Prerecorded, 1)

\* the number of invocations of `handler` a successful run_code makes with
\* the callbacks `supplied` when it would invoke it `n` times if supplied
Invocations(supplied, handler, n) == IF handler \in supplied THEN n ELSE 0

\* C21: a run_code whose network call succeeded invokes the supplied
\* callbacks on the decoded response in this order: on_result once per
\* Result in result order, on_stdout once per stdout line in line order with
\* error false, on_stderr once per stderr line in line order with error
\* true, on_error once exactly when the execution carries an error (an
\* invocation that raises is the last one); a run_code that failed before or
\* in its network call invokes none.
C21_CallbackOrder ==
    last.op = "run_code"
    => IF last.calls # << >> /\ last.calls[1].answer.kind = "ok"
       THEN LET data == last.calls[1].answer.data
                supplied == last.opts.handlers
                nr == Invocations(supplied, "on_result", Len(data.results))
                no == Invocations(supplied, "on_stdout",
                                  Len(data.logs.stdout))
                ne == Invocations(supplied, "on_stderr",
                                  Len(data.logs.stderr))
                nx == Invocations(supplied, "on_error",
                                  IF data.error # None THEN 1 ELSE 0)
                total == nr + no + ne + nx
                raised == last.opts.raise_at \in 1..total
                made == IF raised THEN last.opts.raise_at ELSE total
            IN
            /\ Len(last.events) = made
            /\ (last.error.type = "none") <=> ~raised
            /\ \A i \in 1..made :
                  LET ev == last.events[i] IN
                  IF i <= nr
                  THEN /\ ev.handler = "on_result"
                       /\ ev.arg = Result(data.results[i],
                                          Get(data.results[i],
                                              "is_main_result", FALSE))
                  ELSE IF i <= nr + no
                  THEN /\ ev.handler = "on_stdout"
                       /\ ev.arg = data.logs.stdout[i - nr]
                       /\ ev.error = FALSE
                  ELSE IF i <= nr + no + ne
                  THEN /\ ev.handler = "on_stderr"
                       /\ ev.arg = data.logs.stderr[i - nr - no]
                       /\ ev.error = TRUE
                  ELSE /\ ev.handler = "on_error"
                       /\ ev.arg = data.error[1]
       ELSE /\ last.events = << >>
            /\ last.error.type # "none"

\* C21 witness: all four callbacks were supplied, none raised, and the call
\* made six invocations: two results, two stdout lines, one stderr line and
\* the error
C21_Witness ==
    /\ last.op = "run_code"
    /\ last.error.type = "none"
    /\ last.opts.handlers = AllHandlers
    /\ Len(last.events) = 6
    /\ last.events[6].handler = "on_error"


\* the results of the example: (main false, text a), (main true, text
\* empty), (main true, text b)
ExampleResults(results) ==
    /\ Len(results) = 3
    /\ ~results[1].is_main_result /\ results[1].formats["text"] = Some("a")
    /\ results[2].is_main_result /\ results[2].formats["text"] = Some("")
    /\ results[3].is_main_result /\ results[3].formats["text"] = Some("b")

\* C22: Execution.text is the text of the first Result in sequence order
\* that has is_main_result true and a non-empty text, and no value when no
\* Result qualifies; for the results (main false, a), (main true, empty),
\* (main true, b) it is b.
C22_TextOfFirstQualifying ==
    last.op = "Execution.text"
    => LET results == last.arg
           qualifying == { i \in DOMAIN results :
                             /\ results[i].is_main_result
                             /\ results[i].formats["text"]
                                   \notin {None, Some("")} }
       IN
       /\ IF qualifying = {}
          THEN last.value = None
          ELSE \E i \in qualifying :
                  /\ \A j \in qualifying : i <= j
                  /\ last.value = results[i].formats["text"]
       /\ ExampleResults(results) => last.value = Some("b")

\* C22 witness: Execution.text was read on the results of the example
C22_Witness ==
    /\ last.op = "Execution.text"
    /\ ExampleResults(last.arg)
    /\ last.value = Some("b")

\* the order of the recognized formats as the claim states it
StatedOrder ==
    << "text", "html", "markdown", "svg", "png", "jpeg", "pdf", "latex",
       "json", "javascript", "data", "chart" >>

\* C23: Result.formats() lists the recognized formats whose value is
\* non-empty in the order text, html, markdown, svg, png, jpeg, pdf, latex,
\* json, javascript, data, chart, followed by every key of extra in
\* insertion order; a Result with only text set yields exactly [text].
C23_FormatsOrder ==
    last.op = "Result.formats"
    => LET result == last.arg
           out == last.value
           present == { i \in DOMAIN StatedOrder :
                          result.formats[StatedOrder[i]]
                             \notin {None, Some("")} }
           nf == Cardinality(present)
       IN
       /\ Len(out) = nf + Len(result.extra)
       /\ \A i \in 1..nf :
             \E p \in present :
                /\ out[i] = StatedOrder[p]
                /\ Cardinality({ q \in present : q < p }) = i - 1
       /\ \A i \in DOMAIN result.extra : out[nf + i] = result.extra[i][1]
       /\ (present = {1} /\ result.extra = << >>) => out = << "text" >>

\* C23 witness: formats() of a Result decoded from an entry that sets an
\* unknown key foo before chart and text lists text, chart, foo
C23_Witness ==
    /\ last.op = "Result.formats"
    /\ last.value = << "text", "chart", "foo" >>
    /\ last.arg.extra = << <<"foo", "v">> >>

\* the reserved set as the claim states it
StatedReserved ==
    { "text", "html", "markdown", "svg", "png", "jpeg", "pdf", "latex",
      "json", "javascript", "data", "chart", "type", "is_main_result" }

\* C28: decoding a raw result entry puts into extra exactly the keys of the
\* entry outside the reserved set, each with its raw value, and copies the
\* value of each recognized format key verbatim (absent when the key is
\* missing); type and is_main_result never appear in extra or in formats().
C28_ExtraIsUnreservedKeys ==
    /\ last.op = "Result"
       => LET raw == last.arg
              result == last.value
              unreserved == { i \in DOMAIN raw : raw[i][1] \notin StatedReserved }
          IN
          /\ Len(result.extra) = Cardinality(unreserved)
          /\ \A i \in unreserved :
                \E j \in DOMAIN result.extra : result.extra[j] = raw[i]
          /\ \A j \in DOMAIN result.extra :
                result.extra[j][1] \notin {"type", "is_main_result"}
          /\ \A p \in DOMAIN StatedOrder :
                LET k == StatedOrder[p] IN
                IF \E i \in DOMAIN raw : raw[i][1] = k
                THEN \A i \in DOMAIN raw :
                        raw[i][1] = k => result.formats[k] = Some(raw[i][2])
                ELSE result.formats[k] = None
    /\ last.op = "Result.formats"
       => \A i \in DOMAIN last.value :
             last.value[i] \notin {"type", "is_main_result"}

\* C28 witness: an entry with a type, an unknown key and an empty text was
\* decoded: extra holds the unknown key alone and text is the empty string
C28_Witness ==
    /\ last.op = "Result"
    /\ \E i \in DOMAIN last.arg : last.arg[i][1] = "type"
    /\ last.value.extra = << <<"foo", "v">> >>
    /\ last.value.formats["text"] = Some("")

\* C24: constructing the client from a config whose api_key or server_url
\* is missing or empty raises a configuration error and creates no client
\* state: no attribute is assigned (caches, rate limiter, metrics collector)
\* and no Timer exists, also when enable_metrics is true; any other config
\* constructs the client.
C24_InvalidConfigCreatesNothing ==
    last.op = "SandboxSDK"
    => IF \/ last.arg.api_key \in {None, Some("")}
          \/ last.arg.server_url \in {None, Some("")}
       THEN /\ last.error.type = "SandboxSDKError"
            /\ last.value = {}
            /\ timers = << >>
            /\ active_sandboxes = Unset
            /\ active_contexts = Unset
            /\ request_timestamps = Unset
            /\ concurrent_jobs = Unset
            /\ metrics_collector = Unset
            /\ metrics_interval = Unset
       ELSE /\ last.error.type = "none"
            /\ last.value = ClientAttributes

\* C24 witness: construction with an api_key, no server_url and
\* enable_metrics true has raised the configuration error
C24_Witness ==
    /\ last.op = "SandboxSDK"
    /\ last.error.type = "SandboxSDKError"
    /\ last.arg.api_key = Some("key")
    /\ last.arg.server_url = None
    /\ last.arg.enable_metrics

\* the Timers that are scheduled: started, waiting for their interval
PendingTimers == { i \in DOMAIN timers : timers[i].state = "waiting" }

\* C25: disconnect() is idempotent: a call made after a first call has
\* returned changes nothing; no call modifies the caches, the limiter or the
\* metrics collector; with enable_metrics false no Timer is ever created,
\* and at most one Timer is pending at any time.
C25_DisconnectIdempotent ==
    /\ [][(disconnect_returned /\ Disconnect) => UNCHANGED vars]_vars
    /\ [][Disconnect => UNCHANGED facade_vars]_vars
    /\ [](~enable_metrics => timers = << >>)
    /\ [](Cardinality(PendingTimers) <= 1)

\* what C25 retains when no step of the timer thread separates the calls:
\* after a call the Timer metrics_interval refers to is cancelled, so the
\* next call has nothing to change; the three other parts are as stated
C25_ConsecutiveCallsIdempotent ==
    /\ [][Disconnect => (metrics_interval' # None
                          => timers'[metrics_interval'[1]].cancelled)]_vars
    /\ [][Disconnect => UNCHANGED facade_vars]_vars
    /\ [](~enable_metrics => timers = << >>)
    /\ [](Cardinality(PendingTimers) <= 1)

\* C26: after reset() the six metrics are 0 and the sample buffer is empty,
\* and a record_request(s, t) that follows it yields total_requests 1 and
\* average_response_time t, whatever was recorded before the reset.
C26_ResetClearsAll ==
    /\ [](last.op = "metrics.reset"
            => LET m == metrics_collector.metrics IN
               /\ m.total_requests = 0
               /\ m.successful_requests = 0
               /\ m.failed_requests = 0
               /\ m.average_response_time.num = 0
               /\ m.total_execution_time = 0
               /\ m.active_sandboxes = 0
               /\ metrics_collector.response_times = << >>)
    /\ [][(last.op = "metrics.reset" /\ last'.op = "metrics.record_request")
            => LET n == metrics_collector'.metrics IN
               /\ n.total_requests = 1
               /\ n.average_response_time.num
                     = last'.value.response_time * n.average_response_time.den
               /\ metrics_collector'.response_times
                     = << last'.value.response_time >>]_vars

\* C26 witness: reset() was called on a collector that had recorded
\* requests of both outcomes, an execution and a sandbox count
C26_Witness ==
    /\ last.op = "metrics.reset"
    /\ last.value.before.successful_requests >= 1
    /\ last.value.before.failed_requests >= 1
    /\ last.value.before.total_execution_time > 0
    /\ last.value.before.active_sandboxes > 0
    /\ metrics_collector.metrics.total_requests = 0

\* C27: concurrent_jobs is never negative; increment_concurrent_jobs adds 1,
\* decrement_concurrent_jobs subtracts 1 except at 0, where the counter
\* stays 0, and each call returns the new value of the counter.
C27_JobsNeverNegative ==
    /\ concurrent_jobs >= 0
    /\ last.op = "increment_concurrent_jobs"
       => (/\ concurrent_jobs = last.arg + 1
           /\ last.value = Some(concurrent_jobs))
    /\ last.op = "decrement_concurrent_jobs"
       => (/\ concurrent_jobs = IF last.arg = 0 THEN 0 ELSE last.arg - 1
           /\ last.value = Some(concurrent_jobs))

\* C27 witness: decrement_concurrent_jobs was called on a counter at 0 and
\* returned 0
C27_Witness ==
    /\ last.op = "decrement_concurrent_jobs"
    /\ last.arg = 0
    /\ concurrent_jobs = 0
    /\ last.value = Some(0)

\* the calls that passed the rate-limit check in the 60000 ms up to the
\* i-th of them
PassedInWindow(i) ==
    { j \in 1..i : passed[j] > passed[i] - Ms(WINDOW_MS) }

\* C29: through the facade, with a clock that never goes back, the limiter
\* never holds more than max_requests_per_minute timestamps; no window of
\* 60000 ms (open at its start) holds more than max_requests_per_minute
\* calls that passed the rate-limit check; and every call that passes
\* appends its timestamp to the unexpired ones, whether or not its network
\* call succeeds.
C29_AtMostMaxPerWindow ==
    /\ [](Len(request_timestamps) <= max_requests_per_minute)
    /\ [](\A i \in DOMAIN passed :
            Cardinality(PassedInWindow(i)) <= max_requests_per_minute)
    /\ [][Len(passed') > Len(passed)
            => request_timestamps'
                 = Append(Unexpired(request_timestamps, now), now)]_vars
    /\ [][Len(request_timestamps') > Len(request_timestamps)
            => Len(passed') > Len(passed)]_vars

\* C29 witness: a call passed the check on the last free slot, its network
\* call failed, and its timestamp fills the limiter; an earlier window had
\* been filled as well
C29_Witness ==
    /\ last.op \in RateLimitedOps
    /\ last.calls # << >>
    /\ last.error.type \notin {"none", "RateLimitError"}
    /\ Len(request_timestamps) = max_requests_per_minute
    /\ request_timestamps[Len(request_timestamps)] = now
    /\ Len(passed) > max_requests_per_minute
    /\ passed[Len(passed)] = now

\* C30: when the server returns every created context with the sandbox id
\* of the request, each cached context's sandbox_id is the id of a sandbox
\* in the sandbox cache, after any sequence of successful and failing
\* operations.
C30_ContextsBelongToCachedSandboxes ==
    \A c \in DOMAIN active_contexts :
        /\ active_contexts[c].sandbox_id # None
        /\ active_contexts[c].sandbox_id[1] \in DOMAIN active_sandboxes

\* C30 witness: after four network calls a sandbox was deleted while its
\* DELETE failed on the network, and a context of the other sandbox stays
\* cached
C30_Witness ==
    /\ last.op = "delete_sandbox"
    /\ last.error.type # "none"
    /\ last.arg \notin DOMAIN active_sandboxes
    /\ \E c \in DOMAIN active_contexts :
          active_contexts[c].sandbox_id # Some(last.arg)
    /\ metrics_collector.metrics.total_requests >= 4

\* the operations that take a sandbox id and check it against the cache
GatedOps == CacheCheckedOps \cup {"run_code", "run_terminal"}

\* delete_sandbox has removed the sandbox and its contexts, the error of a
\* failed DELETE reaches the caller, and only a create_sandbox response
\* brings an id back into the cache
DeleteRemovesLocally ==
    /\ [](last.op = "delete_sandbox"
            => (/\ last.arg \notin DOMAIN active_sandboxes
                /\ \A c \in DOMAIN active_contexts :
                      active_contexts[c].sandbox_id # Some(last.arg)
                /\ Len(last.calls) = 1
                /\ (last.calls[1].answer.kind # "ok")
                      <=> (last.error.type # "none")))
    /\ [][\A id \in SandboxIds :
            (id \notin DOMAIN active_sandboxes
                /\ id \in DOMAIN active_sandboxes')
            => (/\ last'.op = "create_sandbox"
                /\ last'.error.type = "none"
                /\ last'.value.sandbox # None
                /\ last'.value.sandbox[1].id = id)]_vars

\* C31: delete_sandbox(id) removes the sandbox and its contexts from the
\* caches before issuing the DELETE; when the DELETE fails the error
\* propagates and the entries stay removed, so every later operation that
\* takes the id fails with not found until a create_sandbox response returns
\* the id again.
C31_DeletedIdIsNotFound ==
    /\ DeleteRemovesLocally
    /\ [][(last.op = "delete_sandbox" /\ last.error.type # "none"
             /\ last'.op \in GatedOps /\ last'.arg = last.arg)
           => last'.error = NotFound]_vars
    /\ [][(last'.op \in GatedOps
             /\ last'.arg \notin DOMAIN active_sandboxes)
           => last'.error = NotFound]_vars

\* what C31 retains: the same with run_code and run_terminal on a full
\* limiter set aside, which are rejected by the rate limit before the cache
\* is looked at
C31_DeletedIdIsNotFoundUnlessLimited ==
    /\ DeleteRemovesLocally
    /\ [][(last'.op \in GatedOps
             /\ last'.arg \notin DOMAIN active_sandboxes
             /\ ~(last'.op \in RateLimitedOps /\ LimiterFull))
           => last'.error = NotFound]_vars

\* C32: an operation that takes a sandbox id and fails the local existence
\* check (not found) leaves the client state as it was: the two caches, the
\* metrics counters and sample buffer and the limiter's timestamps, for
\* every such operation including run_code and run_terminal.
C32_NotFoundChangesNothing ==
    [][(last'.op \in GatedOps /\ last'.error = NotFound)
       => (/\ active_sandboxes' = active_sandboxes
           /\ active_contexts' = active_contexts
           /\ metrics_collector' = metrics_collector
           /\ request_timestamps' = request_timestamps)]_vars

\* what C32 retains: the caches and the metrics are unchanged by every such
\* call and the limiter by the seven that check the cache first, while a
\* run_code or run_terminal that ends in not found has recorded its
\* timestamp
C32_NotFoundKeepsCachesAndMetrics ==
    [][(last'.op \in GatedOps /\ last'.error = NotFound)
       => (/\ active_sandboxes' = active_sandboxes
           /\ active_contexts' = active_contexts
           /\ metrics_collector' = metrics_collector
           /\ request_timestamps' \in
                 { request_timestamps,
                   IF last'.op \in RateLimitedOps
                   THEN Append(Unexpired(request_timestamps, now), now)
                   ELSE request_timestamps })]_vars

\* C33: after a rate-limited call was rejected with RateLimitError carrying
\* retry_after and the caller has waited retry_after milliseconds, with no
\* request recorded in between, the next rate-limited call is admitted.
C33_AdmittedAfterRetryAfter ==
    [][(last.op = "wait" /\ last'.op \in RateLimitedOps)
       => last'.error.type # "RateLimitError"]_vars

\* what C33 retains: after the wait the next call is admitted or is told to
\* wait 0 ms more, the reported retry_after being less than 1 ms short
C33_AdmittedOrZeroAfterRetryAfter ==
    [][(last.op = "wait" /\ last'.op \in RateLimitedOps)
       => (last'.error.type = "RateLimitError"
             => last'.error.retry_after = Some(0))]_vars

\* a step in which the caller's thread completes a facade call, or one
\* run_code of execute_batch: `last` is then the observation of that call
CallCompletes ==
    \/ batch.pc = "idle" /\ batch'.pc = "idle"
    \/ batch.pc = "loop" /\ Len(batch'.results) > Len(batch.results)

\* the calls of `calls` whose answer is a decoded response (ok = TRUE) or a
\* timeout or other failure (ok = FALSE)
Answered(calls, ok) ==
    Cardinality({i \in DOMAIN calls : (calls[i].answer.kind = "ok") = ok})

\* C34: every network call attempted by _make_request records exactly one
\* request in the collector, successful when a decoded response is returned
\* and failed on a timeout or any other failure; so total_requests grows by
\* the number of network calls a facade call attempted, and a call rejected
\* locally (not found, rate limited) issues no call and records nothing.
C34_OneRecordPerNetworkCall ==
    [][/\ CallCompletes =>
            /\ metrics_collector'.metrics.total_requests
                  = metrics_collector.metrics.total_requests
                       + Len(last'.calls)
            /\ metrics_collector'.metrics.successful_requests
                  = metrics_collector.metrics.successful_requests
                       + Answered(last'.calls, TRUE)
            /\ metrics_collector'.metrics.failed_requests
                  = metrics_collector.metrics.failed_requests
                       + Answered(last'.calls, FALSE)
            /\ Len(metrics_collector'.response_times)
                  = Len(metrics_collector.response_times) + Len(last'.calls)
            /\ last'.error.reason \in {"not_found", "rate_limit"}
                  => /\ last'.calls = << >>
                     /\ metrics_collector' = metrics_collector
       /\ ~CallCompletes => metrics_collector' = metrics_collector]_vars

\* a timed-out call recorded as failed after one recorded as successful
C34_Witness ==
    /\ Len(last.calls) = 1
    /\ last.calls[1].answer.kind = "timeout"
    /\ metrics_collector.metrics.total_requests = 2
    /\ metrics_collector.metrics.successful_requests = 1
    /\ metrics_collector.metrics.failed_requests = 1

\* a call rejected by the rate limit after two network calls were recorded
C34_RejectedWitness ==
    /\ last.error.reason = "rate_limit"
    /\ metrics_collector.metrics.total_requests = 2

=============================================================================
